---- MODULE Spec2Model ----
(***************************************************************************)
(* Model of the con-ai coordination engine:                                *)
(*   - the agent lifecycle supervisor   (backend/agents/base_agent.py)     *)
(*   - the orchestration coordinator    (backend/orchestra/                *)
(*                                       orchestra_manager.py)             *)
(*   - the temporal knowledge graph     (backend/orchestra/temporal/       *)
(*                                       knowledge_graph.py)               *)
(* The program is a single asyncio event loop: a coroutine runs without    *)
(* interruption up to its next suspension point, so every action below is  *)
(* the code between two suspension points of one coroutine.                *)
(***************************************************************************)
EXTENDS Integers, Sequences, FiniteSets, TLC

(***************************************************************************)
(* Bounds of the model.                                                    *)
(***************************************************************************)
\* calls of BaseAgent.start (accepted or rejected) in one behaviour
MaxStartCalls == 3
\* operations one task body performs before it returns or raises
MaxBodySteps == 2
\* calls of BaseAgent.stop in one behaviour
MaxStops == 2
\* longest _sleep_with_stop_check, in 0.1 s ticks
MaxTicks == 2
\* store_* calls made on the knowledge graph in one behaviour
MaxStoreCalls == 4
\* start_agent / stop_agent calls made on the agent service in one behaviour
MaxServiceCalls == 4
\* client messages received over all WebSocket sessions in one behaviour
MaxMessages == 2
\* broadcast calls of one behaviour
MaxBroadcasts == 2
\* consolidate_daily_data calls of one behaviour
MaxCycles == 2
\* start_agent calls made before and during a shutdown
MaxShutdownStarts == 2
\* events stored before and between the pattern detections of one behaviour
MaxPatternEvents == 5
\* events stored before and between the queries of one behaviour
MaxQueryEvents == 3
\* latest time of a behaviour with queries, in hours
MaxClock == 30
\* store_agent_event calls repeated for one (agent_id, project_id) pair
MaxObservations == 22
\* store_agent_event calls for other pairs made in between
MaxOther == 2
\* start_agent / stop_agent calls made by outside callers in one behaviour
MaxApiCalls == 1
\* number of agent specifications in the sequential plan
PlanLen == 2

(***************************************************************************)
(* Agent lifecycle supervisor: BaseAgent                                   *)
(***************************************************************************)
VARIABLES
    state,            \* BaseAgent.state: AgentState value
    progress,         \* BaseAgent.progress
    current_message,  \* BaseAgent.current_message
    last_error,       \* BaseAgent.last_error
    current_task_id,  \* BaseAgent.current_task_id (NoTask is None)
    is_running,       \* BaseAgent.is_running
    should_stop,      \* BaseAgent.should_stop
    startPc,          \* position of the accepted start() coroutine
    startUpd,         \* arguments of the _update_status the start() coroutine is suspended in
    sleepTicks,       \* remaining ticks of the running _sleep_with_stop_check
    bodyResult,       \* how _execute_task ended: "ok" (returned), "exc" (raised), "none"
    bodySteps,        \* operations performed by the current task body
    startOutcome,     \* how the last accepted start() ended
    startResult,      \* what the last start() call answered its caller
    startCalls,       \* number of start() calls so far
    stopPc,           \* position of the stop() coroutine
    stopUpd,          \* arguments of the _update_status the stop() coroutine is suspended in
    stopCalls,        \* number of stop() calls so far
    lastPublished,    \* last agent update handed to manager.broadcast_agent_update
    nPublished,       \* number of agent updates published
    hook              \* the last call of on_status_change: its update and how it ended

supVars == <<state, progress, current_message, last_error, current_task_id,
             is_running, should_stop, startPc, startUpd, sleepTicks, bodyResult,
             bodySteps, startOutcome, startResult, startCalls, stopPc, stopUpd,
             stopCalls, lastPublished, nPublished, hook>>


\* the knowledge graph's state
VARIABLES
    events,     \* rows of temporal_events, in insertion order
    dbNodes,    \* rows of knowledge_nodes
    dbEdges,    \* rows of knowledge_edges
    gNodes,     \* nodes of self.graph (networkx.DiGraph)
    gEdges,     \* edges of self.graph, one per (from, to)
    nextId,     \* stands for uuid.uuid4(): the next unused row id
    clock,      \* datetime.utcnow(), in hours since the graph was created
    cycles,     \* rows of consolidation_cycles, in insertion order
    kgOut,      \* what the last query, detection or consolidation call returned or raised
    kgCalls     \* number of store_* calls made on the graph directly

kgVars == <<events, dbNodes, dbEdges, gNodes, gEdges, nextId, clock, cycles, kgOut>>

\* the coordinator's state
VARIABLES
    active_agents,  \* OrchestraManager.active_agents: agent id -> the agent object
                    \* (named by the start_agent call that built it), NoEntry when absent
    agent_tasks,    \* OrchestraManager.agent_tasks: agent id -> task handle, NoEntry when absent
    tasks,          \* the asyncio tasks made for _run_agent_task, in creation order
    calls,          \* the start_agent / stop_agent calls made, in call order
    seq,            \* the orchestrate_agents call running _orchestrate_sequential
    orch,           \* the orchestrate_agents call running _orchestrate_parallel or
                    \* _orchestrate_collaborative
    heap,           \* the workspace dictionaries built by _orchestrate_collaborative,
                    \* by object identity
    bcasts,         \* agent updates broadcast by the coordinator, counted per (agent id, status)
    shut,           \* the shutdown call made on the coordinator
    coOut,          \* what the last get_agent_status call returned
    apiCalls        \* number of start_agent / stop_agent calls made by outside callers

coVars == <<active_agents, agent_tasks, tasks, calls, seq, orch, heap, bcasts, shut,
           coOut, apiCalls>>

\* the notifier's state
VARIABLES
    active_connections, \* ConnectionManager.active_connections, a list of sockets
    connection_data,    \* the keys of ConnectionManager.connection_data
    transport,          \* per socket: "new" (never accepted), "open", "closed", or
                        \* "stalled" (the client stopped reading: a send never completes)
    received,           \* per socket: the broadcast messages delivered to it
    broadcasts          \* the broadcast calls made, in call order

wsVars == <<active_connections, connection_data, transport, received, broadcasts>>

\* the agent service's state
VARIABLES
    svc_active,     \* AgentService.active_agents: agent id -> index of its agent
                    \* object in svcAgents, or NoEntry
    svcAgents,      \* the agent objects start_agent has built, in creation order
    svcCalls        \* the start_agent / stop_agent calls made on the service

svcVars == <<svc_active, svcAgents, svcCalls>>

\* the state of the WebSocket sessions
VARIABLES
    session,            \* per socket: where websocket_endpoint is for it
    messages,           \* the client messages received, in order of receipt
    replies,            \* the personal messages sent by the handlers, in order
    ws_active_agents,   \* the keys of the module's active_agents dictionary
    ws_agent_tasks      \* the keys of the module's agent_tasks dictionary

sessVars == <<session, messages, replies, ws_active_agents, ws_agent_tasks>>

vars == <<supVars, kgVars, kgCalls, coVars, wsVars, svcVars, sessVars>>

\* AgentState (models/agent.py)
AgentState == {"idle", "running", "error", "completed"}

\* current_task_id = None
NoTask == 0

\* progress values a task body reports
BodyProgress == {0, 50, 100}

NoUpdate == [state |-> "none", progress |-> 0, message |-> ""]

\* mutant: an update that reports progress 0 whatever it is given
Update_ZeroProgress(s, p, m) == [state |-> s, progress |-> 0, message |-> m]

Update(s, p, m) == [state |-> s, progress |-> p, message |-> m]

SupInit ==
    /\ state = "idle"
    /\ progress = 0
    /\ current_message = ""
    /\ last_error = ""
    /\ current_task_id = NoTask
    /\ is_running = FALSE
    /\ should_stop = FALSE
    /\ startPc = "idle"
    /\ startUpd = NoUpdate
    /\ sleepTicks = 0
    /\ bodyResult = "none"
    /\ bodySteps = 0
    /\ startOutcome = "none"
    /\ startResult = "none"
    /\ startCalls = 0
    /\ stopPc = "idle"
    /\ stopUpd = NoUpdate
    /\ stopCalls = 0
    /\ lastPublished = NoUpdate
    /\ nPublished = 0
    /\ hook = [update |-> NoUpdate, outcome |-> "none"]

\* _update_status, first half: the assignments to state, progress and
\* current_message, made before the coroutine suspends in the broadcast
SetStatus(s, p, m) ==
    /\ state' = s
    /\ progress' = p
    /\ current_message' = m

\* what a call of the status-change hook can be: no hook is registered, the
\* hook returns, the hook raises an Exception
HookOutcomes == {"absent", "returned", "raised"}

\* mutant: the hook is called before the broadcast and its exception is not
\* handled, so that a raising hook leaves the update unpublished
Publish_HookFirst(u) ==
    \E o \in HookOutcomes :
        /\ hook' = [update |-> u, outcome |-> o]
        /\ lastPublished' = IF o = "raised" THEN lastPublished ELSE u
        /\ nPublished' = IF o = "raised" THEN nPublished ELSE nPublished + 1

\* _update_status, second half (lines 114-131): the broadcast of the update
\* built from the call's arguments returns, then the hook, if there is one, is
\* called with the same update
Publish(u) ==
    /\ lastPublished' = u
    /\ nPublished' = nPublished + 1
    /\ \E o \in HookOutcomes : hook' = [update |-> u, outcome |-> o]

\* mutant: start() without its is_running check
AlreadyRunning_NoCheck == FALSE

\* start(), line 42: if self.is_running: raise ValueError
AlreadyRunning == is_running

\* start(), lines 40-49, up to the suspension in the first _update_status
Start ==
    /\ startCalls < MaxStartCalls
    /\ startCalls' = startCalls + 1
    /\ \/ /\ AlreadyRunning
          /\ startResult' = "AlreadyRunning"
          /\ UNCHANGED <<state, progress, current_message, last_error,
                         current_task_id, is_running, should_stop, startPc,
                         startUpd, sleepTicks, bodyResult, bodySteps,
                         startOutcome, stopPc, stopUpd, stopCalls,
                         lastPublished, nPublished, hook>>
       \/ /\ ~AlreadyRunning
          /\ current_task_id' = startCalls + 1
          /\ is_running' = TRUE
          /\ should_stop' = FALSE
          /\ SetStatus("running", 0, "Starting")
          /\ startUpd' = Update("running", 0, "Starting")
          /\ startPc' = "pub_start"
          /\ bodyResult' = "none"
          /\ bodySteps' = 0
          /\ startResult' = "pending"
          /\ UNCHANGED <<last_error, sleepTicks, startOutcome, stopPc, stopUpd,
                         stopCalls, lastPublished, nPublished, hook>>

\* start(), line 49 resumed: the Running/0 update is published and
\* _execute_task is entered
StartPublish ==
    /\ startPc = "pub_start"
    /\ Publish(startUpd)
    /\ startPc' = "body"
    /\ UNCHANGED <<state, progress, current_message, last_error, current_task_id,
                   is_running, should_stop, startUpd, sleepTicks, bodyResult,
                   bodySteps, startOutcome, startResult, startCalls, stopPc,
                   stopUpd, stopCalls>>

\* mutant: the cleanup placed after the try statement instead of in finally
Finally_OnlyOnReturn(outcome) ==
    /\ is_running' = (outcome # "returned")
    /\ current_task_id' = IF outcome = "returned" THEN NoTask ELSE current_task_id
    /\ startPc' = "idle"
    /\ startOutcome' = outcome
    /\ startResult' = IF outcome = "returned" THEN "task_id" ELSE outcome

\* mutant: the finally clause clears the running flag and keeps the task id
Finally_KeepsTaskId(outcome) ==
    /\ is_running' = FALSE
    /\ current_task_id' = current_task_id
    /\ startPc' = "idle"
    /\ startOutcome' = outcome
    /\ startResult' = IF outcome = "returned" THEN "task_id" ELSE outcome

\* start(), lines 66-76: return or propagate, through the finally clause
Finally(outcome) ==
    /\ is_running' = FALSE
    /\ current_task_id' = NoTask
    /\ startPc' = "idle"
    /\ startOutcome' = outcome
    /\ startResult' = IF outcome = "returned" THEN "task_id" ELSE outcome

\* a task body calls _update_status(RUNNING, p, ...), as DemoAgent does
BodyUpdateStatus ==
    /\ startPc = "body"
    /\ bodySteps < MaxBodySteps
    /\ \E p \in BodyProgress :
          /\ SetStatus("running", p, "working")
          /\ startUpd' = Update("running", p, "working")
    /\ startPc' = "pub_body"
    /\ bodySteps' = bodySteps + 1
    /\ UNCHANGED <<last_error, current_task_id, is_running, should_stop,
                   sleepTicks, bodyResult, startOutcome, startResult, startCalls,
                   stopPc, stopUpd, stopCalls, lastPublished, nPublished, hook>>

BodyPublish ==
    /\ startPc = "pub_body"
    /\ Publish(startUpd)
    /\ startPc' = "body"
    /\ UNCHANGED <<state, progress, current_message, last_error, current_task_id,
                   is_running, should_stop, startUpd, sleepTicks, bodyResult,
                   bodySteps, startOutcome, startResult, startCalls, stopPc,
                   stopUpd, stopCalls>>

\* _check_should_stop raises asyncio.CancelledError, which is a BaseException:
\* the except Exception clause of start() does not handle it, only finally runs
RaiseCancelled ==
    /\ Finally("cancelled")
    /\ UNCHANGED <<state, progress, current_message, last_error, should_stop,
                   startUpd, bodyResult, startCalls, stopPc, stopUpd, stopCalls,
                   lastPublished, nPublished, hook>>

\* a task body calls _check_should_stop (lines 189-192)
BodyCheckShouldStop ==
    /\ startPc = "body"
    /\ bodySteps < MaxBodySteps
    /\ bodySteps' = bodySteps + 1
    /\ \/ /\ should_stop
          /\ RaiseCancelled
          /\ UNCHANGED sleepTicks
       \/ /\ ~should_stop
          /\ UNCHANGED <<state, progress, current_message, last_error,
                         current_task_id, is_running, should_stop, startPc,
                         startUpd, sleepTicks, bodyResult, startOutcome,
                         startResult, startCalls, stopPc, stopUpd, stopCalls,
                         lastPublished, nPublished, hook>>

\* a task body calls _sleep_with_stop_check (lines 194-199): the first pass of
\* the loop checks the flag and suspends in asyncio.sleep for one tick
BodySleep ==
    /\ startPc = "body"
    /\ bodySteps < MaxBodySteps
    /\ bodySteps' = bodySteps + 1
    /\ \/ /\ should_stop
          /\ RaiseCancelled
          /\ UNCHANGED sleepTicks
       \/ /\ ~should_stop
          /\ \E n \in 1..MaxTicks : sleepTicks' = n
          /\ startPc' = "sleeping"
          /\ UNCHANGED <<state, progress, current_message, last_error,
                         current_task_id, is_running, should_stop, startUpd,
                         bodyResult, startOutcome, startResult, startCalls,
                         stopPc, stopUpd, stopCalls, lastPublished, nPublished, hook>>

\* asyncio.sleep returns: the loop condition is evaluated, and only if time
\* remains is the flag checked again (the sleep that reaches end_time returns
\* to the task body without a check)
SleepWake ==
    /\ startPc = "sleeping"
    /\ \/ /\ sleepTicks = 1
          /\ sleepTicks' = 0
          /\ startPc' = "body"
          /\ UNCHANGED <<state, progress, current_message, last_error,
                         current_task_id, is_running, should_stop, startUpd,
                         bodyResult, bodySteps, startOutcome, startResult,
                         startCalls, stopPc, stopUpd, stopCalls, lastPublished,
                         nPublished, hook>>
       \/ /\ sleepTicks > 1
          /\ should_stop
          /\ sleepTicks' = 0
          /\ RaiseCancelled
          /\ UNCHANGED bodySteps
       \/ /\ sleepTicks > 1
          /\ ~should_stop
          /\ sleepTicks' = sleepTicks - 1
          /\ UNCHANGED <<state, progress, current_message, last_error,
                         current_task_id, is_running, should_stop, startPc,
                         startUpd, bodyResult, bodySteps, startOutcome,
                         startResult, startCalls, stopPc, stopUpd, stopCalls,
                         lastPublished, nPublished, hook>>

\* mutant: start() reports Completed without looking at should_stop
FinalStatus_IgnoreStop(result) ==
    IF result = "ok"
    THEN Update("completed", 100, "Task completed successfully")
    ELSE Update("error", progress, "Task failed")

\* start(), lines 57-63 and 69-71: the status start() reports for the way the
\* task body ended
FinalStatus(result) ==
    IF result = "ok"
    THEN IF ~should_stop
         THEN Update("completed", 100, "Task completed successfully")
         ELSE Update("idle", 0, "Task stopped by user")
    ELSE Update("error", progress, "Task failed")

\* _execute_task returns (line 55) or raises an Exception (line 68); start()
\* runs on to the suspension in its last _update_status
BodyEnd ==
    /\ startPc = "body"
    /\ \E r \in {"ok", "exc"} :
          /\ bodyResult' = r
          /\ last_error' = IF r = "exc" THEN "Task failed" ELSE last_error
          /\ LET u == FinalStatus(r) IN
                /\ SetStatus(u.state, u.progress, u.message)
                /\ startUpd' = u
    /\ startPc' = "pub_final"
    /\ UNCHANGED <<current_task_id, is_running, should_stop, sleepTicks,
                   bodySteps, startOutcome, startResult, startCalls, stopPc,
                   stopUpd, stopCalls, lastPublished, nPublished, hook>>

\* the last update is published; start() returns the task id (line 66) or
\* re-raises (line 73), and the finally clause runs
FinalPublish ==
    /\ startPc = "pub_final"
    /\ Publish(startUpd)
    /\ Finally(IF bodyResult = "ok" THEN "returned" ELSE "raised")
    /\ UNCHANGED <<state, progress, current_message, last_error, should_stop,
                   startUpd, sleepTicks, bodyResult, bodySteps, startCalls,
                   stopPc, stopUpd, stopCalls>>

\* mutant: stop() without its is_running check
NotRunning_NoCheck == FALSE

\* stop(), line 80: if not self.is_running
NotRunning == ~is_running

\* stop(), lines 78-86, up to the suspension in _update_status
Stop ==
    /\ stopPc = "idle"
    /\ stopCalls < MaxStops
    /\ stopCalls' = stopCalls + 1
    /\ \/ /\ NotRunning
          /\ UNCHANGED <<state, progress, current_message, last_error,
                         current_task_id, is_running, should_stop, startPc,
                         startUpd, sleepTicks, bodyResult, bodySteps,
                         startOutcome, startResult, startCalls, stopPc, stopUpd,
                         lastPublished, nPublished, hook>>
       \/ /\ ~NotRunning
          /\ should_stop' = TRUE
          /\ SetStatus("idle", progress, "Stopping...")
          /\ stopUpd' = Update("idle", progress, "Stopping...")
          /\ stopPc' = "pub_stop"
          /\ UNCHANGED <<last_error, current_task_id, is_running, startPc,
                         startUpd, sleepTicks, bodyResult, bodySteps,
                         startOutcome, startResult, startCalls, lastPublished,
                         nPublished, hook>>

\* stop(), line 86 resumed: the Idle update is published
StopPublish ==
    /\ stopPc = "pub_stop"
    /\ Publish(stopUpd)
    /\ stopPc' = "idle"
    /\ UNCHANGED <<state, progress, current_message, last_error, current_task_id,
                   is_running, should_stop, startPc, startUpd, sleepTicks,
                   bodyResult, bodySteps, startOutcome, startResult, startCalls,
                   stopUpd, stopCalls>>

(***************************************************************************)
(* Claims about the supervisor                                             *)
(***************************************************************************)
TerminalStates == {"completed", "idle", "error"}

\* C1: a start() call made while a task is running answers AlreadyRunning and
\* leaves state, progress, message, current_task_id, is_running and
\* should_stop as they were, the running start() where it was, and publishes
\* no status update.
C1_RejectedStartChangesNothing ==
    [][(startCalls' # startCalls /\ is_running) =>
          /\ startResult' = "AlreadyRunning"
          /\ UNCHANGED <<state, progress, current_message, current_task_id,
                         is_running, should_stop, startPc, startUpd,
                         lastPublished, nPublished, hook>>]_vars

C1_Witness ==
    /\ startResult = "AlreadyRunning"
    /\ is_running
    /\ current_task_id # NoTask

\* C2: once an accepted start() has returned or raised (task completed, task
\* failed, or cancelled by the stop check), current_task_id is None and
\* is_running is False.
C2_CleanupAfterStart ==
    (startPc = "idle" /\ startOutcome # "none") =>
        (~is_running /\ current_task_id = NoTask)

C2_Witness ==
    /\ startPc = "idle"
    /\ startOutcome = "raised"
    /\ ~is_running
    /\ current_task_id = NoTask

\* C6: once an accepted start() has returned or raised (and no stop() is still
\* publishing), the supervisor's state and the last published status are
\* Completed, Idle or Error, never Running.
C6_TerminalStatusReported ==
    (startPc = "idle" /\ startOutcome # "none" /\ stopPc = "idle") =>
        (state \in TerminalStates /\ lastPublished.state \in TerminalStates)

\* C7: start() maps the way the task body ended to one final status: a normal
\* return with no stop requested gives Completed/100, a normal return after a
\* stop request gives Idle/0, an Exception sets last_error and gives Error at
\* the unchanged progress; that status is the one published before start()
\* returns the task id (normal return) or re-raises (Exception).
C7_FinalStatusMapping ==
    [][/\ (startPc = "body" /\ startPc' = "pub_final") =>
            /\ (bodyResult' = "ok" /\ ~should_stop) =>
                  (state' = "completed" /\ progress' = 100
                   /\ startUpd'.state = "completed" /\ startUpd'.progress = 100)
            /\ (bodyResult' = "ok" /\ should_stop) =>
                  (state' = "idle" /\ progress' = 0
                   /\ startUpd'.state = "idle" /\ startUpd'.progress = 0)
            /\ (bodyResult' = "exc") =>
                  (state' = "error" /\ progress' = progress /\ last_error' # ""
                   /\ startUpd'.state = "error" /\ startUpd'.progress = progress)
       /\ (startPc = "pub_final" /\ startPc' = "idle") =>
            /\ lastPublished' = startUpd
            /\ nPublished' = nPublished + 1
            /\ startResult' = IF bodyResult = "ok" THEN "task_id" ELSE "raised"]_vars

C7_Witness ==
    /\ startPc = "idle"
    /\ startOutcome = "returned"
    /\ should_stop
    /\ lastPublished = Update("idle", 0, "Task stopped by user")

\* C8: stop() on an agent that is not running leaves should_stop, state,
\* progress and message as they were and publishes nothing.
C8_StopWhenNotRunningIsNoOp ==
    [][(stopCalls' # stopCalls /\ ~is_running) =>
          UNCHANGED <<should_stop, state, progress, current_message, last_error,
                      current_task_id, is_running, stopPc, stopUpd,
                      lastPublished, nPublished, hook>>]_vars

C8_Witness ==
    /\ stopCalls > 0
    /\ startOutcome = "returned"
    /\ ~is_running
    /\ ~should_stop
    /\ state = "completed"

\* start(), line 55: the call is inside await self._execute_task(...)
BodyExecuting == startPc \in {"body", "sleeping"}

\* start(), lines 45-76: an accepted call has not yet returned or raised
StartInProgress == startPc # "idle"

\* C26 as stated: current_task_id is set exactly when is_running is true, and
\* exactly when the task body is executing.
C26_TaskIdIffBodyExecuting ==
    /\ (current_task_id # NoTask) <=> is_running
    /\ is_running <=> BodyExecuting

\* C26: current_task_id is set exactly when is_running is true, and exactly
\* when an accepted start() call is in progress: publishing its Running
\* update, inside the task body, or publishing its final status.
C26_TaskIdIffStartInProgress ==
    /\ (current_task_id # NoTask) <=> is_running
    /\ is_running <=> StartInProgress

C26_Witness ==
    /\ startPc = "pub_final"
    /\ is_running
    /\ current_task_id # NoTask
    /\ startResult = "pending"
    /\ stopCalls > 0

\* C33: stop() on a running agent sets should_stop, sets the state to Idle at
\* the progress the agent has, and publishes that Idle update next; it leaves
\* is_running, current_task_id and the place where start() is as they are, in
\* the call and in the publication.
C33_StopRequestsOnly ==
    [][/\ (stopCalls' # stopCalls /\ is_running) =>
            /\ should_stop'
            /\ state' = "idle"
            /\ progress' = progress
            /\ stopUpd'.state = "idle"
            /\ stopUpd'.progress = progress
            /\ stopPc' = "pub_stop"
            /\ UNCHANGED <<is_running, current_task_id, startPc, startUpd,
                           sleepTicks, bodyResult, bodySteps, startOutcome,
                           last_error, lastPublished, nPublished, hook>>
       /\ (stopPc = "pub_stop" /\ stopPc' = "idle") =>
            /\ lastPublished' = stopUpd
            /\ nPublished' = nPublished + 1
            /\ UNCHANGED <<is_running, current_task_id, startPc, should_stop,
                           state, progress>>]_vars

C33_Witness ==
    /\ stopPc = "idle"
    /\ stopCalls = 1
    /\ should_stop
    /\ is_running
    /\ current_task_id # NoTask
    /\ startPc = "body"
    /\ lastPublished.state = "idle"
    /\ lastPublished.progress = 50
    /\ progress = 50

\* the fields _update_status assigns, as an update
StatusNow == Update(state, progress, current_message)

\* C34: every _update_status first sets state, progress and message and
\* builds the update from the same values, without publishing yet; the
\* broadcast of that update comes next, and the hook is called only then and
\* with the update that was published; a hook that raises changes nothing for
\* the caller, which goes on as after a hook that returns, the state already
\* set and the update already published.
C34_UpdateStatusOrder ==
    [][/\ startUpd' # startUpd =>
            (startUpd' = StatusNow' /\ UNCHANGED <<lastPublished, nPublished, hook>>)
       /\ stopUpd' # stopUpd =>
            (stopUpd' = StatusNow' /\ UNCHANGED <<lastPublished, nPublished, hook>>)
       /\ hook' # hook =>
            (nPublished' = nPublished + 1 /\ hook'.update = lastPublished')
       /\ nPublished' # nPublished =>
            /\ nPublished' = nPublished + 1
            /\ hook'.update = lastPublished'
            /\ lastPublished' \in {startUpd, stopUpd}
            /\ UNCHANGED <<state, progress, current_message>>
            /\ startPc # startPc' =>
                  /\ lastPublished' = startUpd
                  /\ startPc \in {"pub_start", "pub_body"} => startPc' = "body"
                  /\ startPc = "pub_final" =>
                        startResult' = IF bodyResult = "ok" THEN "task_id"
                                       ELSE "raised"
            /\ stopPc # stopPc' => (lastPublished' = stopUpd /\ stopPc' = "idle")]_vars

C34_Witness ==
    /\ hook.outcome = "raised"
    /\ hook.update = Update("completed", 100, "Task completed successfully")
    /\ lastPublished = hook.update
    /\ state = "completed"
    /\ startOutcome = "returned"
    /\ startResult = "task_id"

\* C35: _sleep_with_stop_check never returns normally once should_stop is
\* set: a sleep that is entered or left with the flag set ends in
\* cancellation, and it ends at the first tick after the flag was set; with
\* the flag never set the sleep lasts its ticks and returns to the task body.
C35_SleepNeverOutlastsStop ==
    [][/\ (startPc = "sleeping" /\ startPc' # "sleeping") =>
            IF should_stop
            THEN startPc' = "idle" /\ startOutcome' = "cancelled"
            ELSE startPc' = "body" /\ sleepTicks = 1
       /\ (startPc = "sleeping" /\ should_stop /\ sleepTicks' # sleepTicks) =>
            startPc' # "sleeping"
       /\ (startPc = "body" /\ startPc' = "sleeping") => ~should_stop]_vars

SupNext ==
    \/ Start
    \/ StartPublish
    \/ BodyUpdateStatus
    \/ BodyPublish
    \/ BodyCheckShouldStop
    \/ BodySleep
    \/ SleepWake
    \/ BodyEnd
    \/ FinalPublish
    \/ Stop
    \/ StopPublish

(***************************************************************************)
(* Temporal knowledge graph: TemporalKnowledgeGraph                        *)
(***************************************************************************)
\* agent_id and project_id values; NoProject is project_id = None
AgentIds == {"a1", "a2"}
ProjectIds == {"p1", "p2"}
NoProject == "None"

\* KnowledgeEdge.weight and the 0.1 step of _ensure_edge are floats; the model
\* counts weights in tenths, so 10 is 1.0 and 20 is 2.0
InitialWeight == 10
WeightStep == 1
WeightCap == 20
\* Column(Integer, default=1) of KnowledgeEdge.interaction_count
InitialInteractionCount == 1

Min(a, b) == IF a <= b THEN a ELSE b

KGInit ==
    /\ events = <<>>
    /\ dbNodes = {}
    /\ dbEdges = {}
    /\ gNodes = {}
    /\ gEdges = {}
    /\ nextId = 1
    /\ clock = 0
    /\ cycles = <<>>
    /\ kgOut = [op |-> "none"]
    /\ kgCalls = 0

\* the database and the in-memory graph as one value, threaded through the
\* steps of an operation
KGNow == [events |-> events, nodes |-> dbNodes, edges |-> dbEdges,
          gn |-> gNodes, ge |-> gEdges, next |-> nextId]

KGSet(g) ==
    /\ events' = g.events
    /\ dbNodes' = g.nodes
    /\ dbEdges' = g.edges
    /\ gNodes' = g.gn
    /\ gEdges' = g.ge
    /\ nextId' = g.next
    /\ clock' = clock
    /\ cycles' = cycles
    /\ kgOut' = kgOut

NodeRows(g, nt, eid) == {n \in g.nodes : n.node_type = nt /\ n.entity_id = eid}

\* _ensure_node: the id of the (first) row with this node_type and entity_id
NodeId(g, nt, eid) == (CHOOSE n \in NodeRows(g, nt, eid) : TRUE).id

\* mutant: _ensure_node inserting a row without looking for an existing one
EnsureNode_AlwaysInsert(g, nt, eid) ==
    [g EXCEPT !.nodes = @ \cup {[id |-> g.next, node_type |-> nt, entity_id |-> eid]},
              !.gn = @ \cup {g.next},
              !.next = @ + 1]

\* _ensure_node (lines 416-458): query by (node_type, entity_id); insert the
\* row and add the graph node only when there is none
EnsureNode(g, nt, eid) ==
    IF NodeRows(g, nt, eid) # {}
    THEN g
    ELSE [g EXCEPT !.nodes = @ \cup {[id |-> g.next, node_type |-> nt, entity_id |-> eid]},
                   !.gn = @ \cup {g.next},
                   !.next = @ + 1]

EdgeRows(g, from, to, rel) ==
    {e \in g.edges : e.from_node_id = from /\ e.to_node_id = to
                      /\ e.relationship_type = rel}

\* self.graph.add_edge: a DiGraph holds one edge per (from, to); both end
\* nodes are added when missing
GraphAddEdge(g, from, to, rel, w) ==
    [g EXCEPT !.ge = {e \in @ : ~(e.from = from /\ e.to = to)}
                      \cup {[from |-> from, to |-> to, relationship_type |-> rel,
                             weight |-> w]},
              !.gn = @ \cup {from, to}]

\* mutant: _ensure_edge strengthening an existing edge without the cap and
\* without counting the interaction
Strengthen_NoCount(e) == [e EXCEPT !.weight = @ + WeightStep]

\* mutant: _ensure_edge strengthening an existing edge without the cap
Strengthen_NoCap(e) ==
    [e EXCEPT !.interaction_count = @ + 1, !.weight = @ + WeightStep]

\* mutant: _ensure_edge starting the weight again once the cap is passed
Strengthen_Wrapping(e) ==
    [e EXCEPT !.interaction_count = @ + 1,
              !.weight = IF @ + WeightStep > WeightCap THEN InitialWeight
                         ELSE @ + WeightStep]

\* _ensure_edge, lines 484-486: the update of an existing row
Strengthen(e) ==
    [e EXCEPT !.interaction_count = @ + 1,
              !.weight = Min(@ + WeightStep, WeightCap)]

\* _ensure_edge (lines 460-511)
EnsureEdge(g, from, to, rel, weight) ==
    IF EdgeRows(g, from, to, rel) # {}
    THEN LET old == CHOOSE e \in EdgeRows(g, from, to, rel) : TRUE
             new == Strengthen(old)
         IN  GraphAddEdge([g EXCEPT !.edges = (@ \ {old}) \cup {new}],
                          from, to, rel, new.weight)
    ELSE LET new == [id |-> g.next, from_node_id |-> from, to_node_id |-> to,
                     relationship_type |-> rel, weight |-> weight,
                     interaction_count |-> InitialInteractionCount]
         IN  GraphAddEdge([g EXCEPT !.edges = @ \cup {new}, !.next = @ + 1],
                          from, to, rel, new.weight)

\* _update_graph_with_event (lines 393-414); the call of
\* _update_node_analytics that ends it changes neither table nor graph
UpdateGraphWithEvent(g, agent, project) ==
    LET g1 == EnsureNode(g, "agent", agent)
        agent_node_id == NodeId(g1, "agent", agent)
    IN  IF project # NoProject
        THEN LET g2 == EnsureNode(g1, "project", project)
                 project_node_id == NodeId(g2, "project", project)
             IN  EnsureEdge(g2, agent_node_id, project_node_id, "works_on",
                            InitialWeight)
        ELSE g1

Event(type, agent, project, data) ==
    [event_type |-> type, agent_id |-> agent, project_id |-> project,
     event_data |-> data, timestamp |-> clock]

\* store_agent_event (lines 61-89): the row is committed, then the graph is
\* updated
StoreAgentEventIn(g, agent, type, data, project) ==
    UpdateGraphWithEvent(
        [g EXCEPT !.events = Append(@, Event(type, agent, project, data))],
        agent, project)

KGStoreAgentEvent(agent, type, data, project) ==
    KGSet(StoreAgentEventIn(KGNow, agent, type, data, project))

\* a caller stores an agent event
StoreAgentEvent ==
    /\ kgCalls < MaxStoreCalls
    /\ kgCalls' = kgCalls + 1
    /\ \E a \in AgentIds, t \in {"start", "stop"}, p \in ProjectIds \cup {NoProject} :
          KGStoreAgentEvent(a, t, "data", p)
    /\ UNCHANGED supVars

\* store_task_result (lines 91-119): a task_execution event for the project
\* named by parameters["project_id"]
StoreTaskResult ==
    /\ kgCalls < MaxStoreCalls
    /\ kgCalls' = kgCalls + 1
    /\ \E a \in AgentIds, p \in ProjectIds \cup {NoProject} :
          KGStoreAgentEvent(a, "task_execution", "data", p)
    /\ UNCHANGED supVars

KGNext ==
    \/ StoreAgentEvent
    \/ StoreTaskResult


\* a caller stores one more event for the pair of the first event stored (any
\* pair when the log is empty)
RepeatObservation ==
    /\ Len(events) < MaxObservations
    /\ \E a \in AgentIds, p \in ProjectIds :
          /\ events # <<>> => (a = events[1].agent_id /\ p = events[1].project_id)
          /\ KGStoreAgentEvent(a, "task_execution", "data", p)
    /\ UNCHANGED <<supVars, kgCalls, coVars, wsVars, svcVars, sessVars>>

\* in between, the same agent stores an event for another project or for none
OtherObservation ==
    /\ events # <<>>
    /\ Cardinality({i \in 1..Len(events) :
                       events[i].project_id # events[1].project_id}) < MaxOther
    /\ \E p \in (ProjectIds \cup {NoProject}) \ {events[1].project_id} :
          KGStoreAgentEvent(events[1].agent_id, "start", "data", p)
    /\ UNCHANGED <<supVars, kgCalls, coVars, wsVars, svcVars, sessVars>>

RepeatNext ==
    \/ RepeatObservation
    \/ OtherObservation


\* the tables and the in-memory graph, which queries leave alone
kgData == <<events, dbNodes, dbEdges, gNodes, gEdges, nextId, cycles>>

\* context_window_hours values asked for
Windows == {24}

\* hours that pass between two calls
TickSteps == {10, 20}

\* TemporalKnowledgeGraph defines no _get_node_context and no
\* _analyze_temporal_sequence: calling them raises AttributeError
HasGetNodeContext == FALSE
HasAnalyzeTemporalSequence == FALSE

\* query_temporal_context, lines 179-194: the rows of the entity with a
\* timestamp in [now - window, now], ordered by timestamp (rows are inserted in
\* timestamp order)
ContextEvents(entity, window) ==
    SelectSeq(events,
              LAMBDA e : /\ (e.agent_id = entity \/ e.project_id = entity)
                         /\ e.timestamp >= clock - window
                         /\ e.timestamp <= clock)

\* query_temporal_context (lines 170-215): after the query it calls
\* _get_node_context and _analyze_temporal_sequence; the handler of line 213
\* answers any exception with the empty dictionary
QueryTemporalContext(entity, window) ==
    IF HasGetNodeContext /\ HasAnalyzeTemporalSequence
    THEN [op |-> "query", entity_id |-> entity, context_window_hours |-> window,
          events_count |-> Len(ContextEvents(entity, window)),
          events |-> ContextEvents(entity, window)]
    ELSE [op |-> "query", entity_id |-> entity, context_window_hours |-> window,
          empty |-> TRUE]

\* time passes
Tick ==
    /\ \E d \in TickSteps :
          /\ clock + d <= MaxClock
          /\ clock' = clock + d
    /\ UNCHANGED <<kgData, kgOut, supVars, kgCalls, coVars, wsVars, svcVars, sessVars>>

\* a caller stores an agent event at the current time
StoreEventNow ==
    /\ Len(events) < MaxQueryEvents
    /\ \E a \in AgentIds, p \in {"p1", NoProject} :
          KGStoreAgentEvent(a, "task_execution", "data", p)
    /\ UNCHANGED <<supVars, kgCalls, coVars, wsVars, svcVars, sessVars>>

\* a caller asks for the temporal context of an agent or a project
QueryContext ==
    /\ \E entity \in AgentIds \cup ProjectIds, window \in Windows :
          kgOut' = QueryTemporalContext(entity, window)
    /\ UNCHANGED <<kgData, clock, supVars, kgCalls, coVars, wsVars, svcVars, sessVars>>

QueryNext ==
    \/ Tick
    \/ StoreEventNow
    \/ QueryContext


\* lookback_days values asked for
LookbackDays == {1, 30}

\* TemporalKnowledgeGraph defines none of _detect_collaboration_patterns,
\* _detect_performance_patterns, _detect_anomalies and _store_pattern
HasDetectCollaborationPatterns == FALSE

\* _detect_temporal_patterns, lines 520-529: the events of the lookback window
LookbackEvents(days) ==
    SelectSeq(events, LAMBDA e : e.timestamp >= clock - 24 * days)

\* event.timestamp.hour and the day of the week of a timestamp in hours
HourOf(t) == t % 24
DayOf(t) == (t \div 24) % 7

\* the keys under which the events of es are counted, in event order
HourKeys(es) == [i \in 1..Len(es) |-> HourOf(es[i].timestamp)]
DayKeys(es) == [i \in 1..Len(es) |-> DayOf(es[i].timestamp)]

\* hourly_activity[key] / daily_activity[key]: the number of events per key
Activity(ks, key) == Cardinality({i \in 1..Len(ks) : ks[i] = key})

\* keys of the dictionary in insertion order: the order of first occurrence
FirstAt(ks, key) ==
    CHOOSE i \in 1..Len(ks) : ks[i] = key /\ \A j \in 1..(i - 1) : ks[j] # key

\* max(activity.items(), key=lambda x: x[1]): the first key, in insertion
\* order, with the largest count
PeakKey(ks) ==
    LET keys == {ks[i] : i \in 1..Len(ks)}
        most == {k \in keys : \A k2 \in keys : Activity(ks, k) >= Activity(ks, k2)}
    IN  CHOOSE k \in most : \A k2 \in most : FirstAt(ks, k) <= FirstAt(ks, k2)

\* peak > average * ratio, with average = total / number of keys and the ratio
\* given in tenths (15 for 1.5, 13 for 1.3)
ExceedsAverage(ks, key, tenths) ==
    Activity(ks, key) * Cardinality({ks[i] : i \in 1..Len(ks)}) * 10 > Len(ks) * tenths

\* _detect_temporal_patterns (lines 513-587)
DetectTemporalPatterns(days) ==
    LET es == LookbackEvents(days)
        hs == HourKeys(es)
        ds == DayKeys(es)
        hourly == IF es # <<>> /\ ExceedsAverage(hs, PeakKey(hs), 15)
                  THEN <<[pattern_type |-> "temporal_peak",
                          peak |-> PeakKey(hs),
                          peak_activity |-> Activity(hs, PeakKey(hs))]>>
                  ELSE <<>>
        daily == IF es # <<>> /\ ExceedsAverage(ds, PeakKey(ds), 13)
                 THEN <<[pattern_type |-> "daily_peak",
                         peak |-> PeakKey(ds),
                         peak_activity |-> Activity(ds, PeakKey(ds))]>>
                 ELSE <<>>
    IN  hourly \o daily

\* detect_patterns (lines 146-168): the temporal patterns are computed, then
\* _detect_collaboration_patterns is called; the handler of line 166 answers
\* any exception with the empty list
DetectPatterns(days) ==
    IF HasDetectCollaborationPatterns
    THEN DetectTemporalPatterns(days)
    ELSE <<>>

\* a caller stores an agent event at the current time
StorePatternEvent ==
    /\ Len(events) < MaxPatternEvents
    /\ KGStoreAgentEvent("a1", "task_execution", "data", NoProject)
    /\ UNCHANGED <<supVars, kgCalls, coVars, wsVars, svcVars, sessVars>>

\* a caller asks for the patterns of the last days
DetectPatternsCall ==
    /\ \E days \in LookbackDays :
          kgOut' = [op |-> "detect", lookback_days |-> days,
                    patterns |-> DetectPatterns(days)]
    /\ UNCHANGED <<kgData, clock, supVars, kgCalls, coVars, wsVars, svcVars, sessVars>>

PatternNext ==
    \/ Tick
    \/ StorePatternEvent
    \/ DetectPatternsCall


\* the maintenance steps of consolidate_daily_data in call order, and whether
\* TemporalKnowledgeGraph defines the method called: detect_patterns is
\* defined (and answers its own failures with []), the other four are not
MaintenanceSteps ==
    <<[name |-> "detect_patterns", defined |-> TRUE],
      [name |-> "_assess_data_quality", defined |-> FALSE],
      [name |-> "_update_graph_analytics", defined |-> FALSE],
      [name |-> "_generate_daily_insights", defined |-> FALSE],
      [name |-> "_cleanup_old_data", defined |-> FALSE]>>

\* the steps whose call raises AttributeError
MissingSteps == {i \in DOMAIN MaintenanceSteps : ~MaintenanceSteps[i].defined}

\* "with self.SessionLocal() as db" (line 303): leaving the block, normally or
\* by an exception, closes the session, and a closed session no longer holds
\* the objects that were added to it. The handler of lines 349-356 runs after
\* the block was left: its assignments to cycle change a detached object and
\* its db.commit() has nothing to write
SessionHoldsCycleAfterBlock == FALSE

\* the ConsolidationCycle row added and committed at lines 304-308
RunningCycle ==
    [cycle_type |-> "daily", cycle_date |-> clock - (clock % 24),
     status |-> "running", patterns_detected |-> 0, error_message |-> "none"]

\* consolidate_daily_data (lines 297-356): the row of the cycle after the call
\* and what the call gives its caller
ConsolidateDailyData ==
    LET patterns == DetectPatterns(1)
    IN  IF MissingSteps = {}
        THEN [row |-> [RunningCycle EXCEPT !.status = "completed",
                                           !.patterns_detected = Len(patterns)],
              raised |-> FALSE, error |-> "none"]
        ELSE LET step == CHOOSE i \in MissingSteps : \A j \in MissingSteps : i <= j
             IN  [row |-> IF SessionHoldsCycleAfterBlock
                          THEN [RunningCycle EXCEPT
                                   !.status = "failed",
                                   !.patterns_detected = Len(patterns),
                                   !.error_message = MaintenanceSteps[step].name]
                          ELSE RunningCycle,
                  raised |-> TRUE, error |-> MaintenanceSteps[step].name]

\* a caller (the /consolidation/daily endpoint) runs the daily consolidation
ConsolidateCall ==
    /\ Len(cycles) < MaxCycles
    /\ cycles' = Append(cycles, ConsolidateDailyData.row)
    /\ kgOut' = [op |-> "consolidate", cycle |-> Len(cycles) + 1,
                 raised |-> ConsolidateDailyData.raised,
                 error |-> ConsolidateDailyData.error]
    /\ UNCHANGED <<events, dbNodes, dbEdges, gNodes, gEdges, nextId, clock,
                   supVars, kgCalls, coVars, wsVars, svcVars, sessVars>>

ConsolidateNext ==
    \/ Tick
    \/ StorePatternEvent
    \/ ConsolidateCall


\* the step of _update_graph_with_event in which the database fails
Faults == {"none", "agent_node", "project_node", "edge"}

\* None, the node id _ensure_node returns from its handler (lines 456-458)
NoNode == 0

\* _ensure_node with a failing database: the exception is logged at lines
\* 456-458, no row and no graph node are added and None is returned
EnsureNodeOrNone(g, nt, eid, fails) ==
    IF fails
    THEN [g |-> g, id |-> NoNode]
    ELSE [g |-> EnsureNode(g, nt, eid), id |-> NodeId(EnsureNode(g, nt, eid), nt, eid)]

\* _ensure_edge with a failing database, or with None for an end node (the
\* columns from_node_id and to_node_id are not nullable, so the commit fails):
\* the exception is logged at lines 510-511 and nothing is changed
EnsureEdgeOrNothing(g, from, to, rel, weight, fails) ==
    IF fails \/ from = NoNode \/ to = NoNode
    THEN g
    ELSE EnsureEdge(g, from, to, rel, weight)

\* _update_graph_with_event (lines 393-414) when the step fault fails
UpdateGraphWithEventFaulty(g, agent, project, fault) ==
    LET r1 == EnsureNodeOrNone(g, "agent", agent, fault = "agent_node")
    IN  IF project # NoProject
        THEN LET r2 == EnsureNodeOrNone(r1.g, "project", project,
                                        fault = "project_node")
             IN  EnsureEdgeOrNothing(r2.g, r1.id, r2.id, "works_on", InitialWeight,
                                     fault = "edge")
        ELSE r1.g

\* mutant: _update_graph_with_event without its except clause
GraphUpdateRaises_Propagating(fault) == fault # "none"

\* whether _update_graph_with_event raises to store_agent_event: its handler
\* (lines 412-414) logs every exception, also the AttributeError of the
\* undefined _update_node_analytics, and returns
GraphUpdateRaises(fault) == FALSE

\* a caller stores an agent event while the database fails in one step of the
\* graph update
StoreAgentEventFaulty ==
    /\ kgCalls < MaxStoreCalls
    /\ kgCalls' = kgCalls + 1
    /\ \E a \in AgentIds, p \in ProjectIds \cup {NoProject}, fault \in Faults :
          LET g0 == [KGNow EXCEPT !.events = Append(@, Event("start", a, p, "data"))]
              g == UpdateGraphWithEventFaulty(g0, a, p, fault)
          IN  /\ events' = g.events
              /\ dbNodes' = g.nodes
              /\ dbEdges' = g.edges
              /\ gNodes' = g.gn
              /\ gEdges' = g.ge
              /\ nextId' = g.next
              /\ kgOut' = [op |-> "store", agent_id |-> a, project_id |-> p,
                           fault |-> fault, raised |-> GraphUpdateRaises(fault)]
    /\ UNCHANGED <<clock, cycles, supVars, coVars, wsVars, svcVars, sessVars>>

FaultyNext == StoreAgentEventFaulty


\* mutant: _load_graph_from_database loading the nodes only
LoadGraphFromDatabase_NodesOnly(g) ==
    [g EXCEPT !.gn = {n.id : n \in g.nodes}, !.ge = {}]

\* _load_graph_from_database (lines 358-391) into the empty DiGraph of a new
\* TemporalKnowledgeGraph: one graph node per row of knowledge_nodes, one
\* graph edge per row of knowledge_edges (the rows have distinct end pairs:
\* _ensure_edge is their only writer and works_on the only relationship)
LoadGraphFromDatabase(g) ==
    [g EXCEPT !.gn = {n.id : n \in g.nodes}
                     \cup {e.from_node_id : e \in g.edges}
                     \cup {e.to_node_id : e \in g.edges},
              !.ge = {[from |-> e.from_node_id, to |-> e.to_node_id,
                       relationship_type |-> e.relationship_type,
                       weight |-> e.weight] : e \in g.edges}]

\* the process restarts: a new TemporalKnowledgeGraph is built over the same
\* database and initialize (lines 43-59) loads the graph; kgOut keeps the
\* graph the new object starts with
Restart ==
    /\ LET g == LoadGraphFromDatabase([KGNow EXCEPT !.gn = {}, !.ge = {}])
       IN  /\ gNodes' = g.gn
           /\ gEdges' = g.ge
           /\ kgOut' = [op |-> "initialize", nodes |-> g.gn, edges |-> g.ge]
    /\ UNCHANGED <<events, dbNodes, dbEdges, nextId, clock, cycles,
                   supVars, kgCalls, coVars, wsVars, svcVars, sessVars>>

RestartNext ==
    \/ RepeatObservation
    \/ OtherObservation
    \/ Restart

(***************************************************************************)
(* Claims about the knowledge graph                                        *)
(***************************************************************************)
\* number of events stored for the pair (agent, project)
Observations(a, p) ==
    Cardinality({i \in 1..Len(events) :
                    events[i].agent_id = a /\ events[i].project_id = p})

WorksOnEdges(a, p) ==
    {e \in dbEdges :
        /\ e.relationship_type = "works_on"
        /\ \E n \in dbNodes : n.id = e.from_node_id /\ n.node_type = "agent"
                              /\ n.entity_id = a
        /\ \E n \in dbNodes : n.id = e.to_node_id /\ n.node_type = "project"
                              /\ n.entity_id = p}

\* C10: after two store_agent_event calls with the same (agent_id,
\* project_id) there is exactly one works_on edge from the agent's node to the
\* project's node, its interaction_count is 2 and its weight is 1.1, in the
\* table and in the in-memory graph.
C10_SecondObservationStrengthens ==
    \A a \in AgentIds, p \in ProjectIds :
        Observations(a, p) = 2 =>
            /\ Cardinality(WorksOnEdges(a, p)) = 1
            /\ \A e \in WorksOnEdges(a, p) :
                  /\ e.interaction_count = 2
                  /\ e.weight = 11
                  /\ \E ge \in gEdges : /\ ge.from = e.from_node_id
                                        /\ ge.to = e.to_node_id
                                        /\ ge.weight = 11

C10_Witness ==
    \E a \in AgentIds, p \in ProjectIds :
        /\ Observations(a, p) = 2
        /\ \E e \in WorksOnEdges(a, p) : e.interaction_count = 2 /\ e.weight = 11

\* C11: the weight of every edge, in the table and in the in-memory graph,
\* lies between 1.0 and 2.0 (10 and 20 tenths), and from the 20th observation
\* of a pair on the weight of its edge is exactly 2.0.
C11_WeightCapped ==
    /\ \A e \in dbEdges : InitialWeight <= e.weight /\ e.weight <= WeightCap
    /\ \A e \in gEdges : InitialWeight <= e.weight /\ e.weight <= WeightCap
    /\ \A a \in AgentIds, p \in ProjectIds :
          Observations(a, p) >= 20 =>
              /\ WorksOnEdges(a, p) # {}
              /\ \A e \in WorksOnEdges(a, p) :
                    /\ e.weight = 20
                    /\ \E ge \in gEdges : /\ ge.from = e.from_node_id
                                          /\ ge.to = e.to_node_id
                                          /\ ge.weight = 20

C11_Witness ==
    \E a \in AgentIds, p \in ProjectIds :
        /\ Observations(a, p) > 20
        /\ \E e \in WorksOnEdges(a, p) : e.weight = 20 /\ e.interaction_count > 20


\* the events of a query result (none when the result has no "events" key)
ReturnedEvents(r) == IF "events" \in DOMAIN r THEN r.events ELSE <<>>

\* C15: a query_temporal_context call returns exactly the stored events whose
\* agent_id or project_id is the entity and whose timestamp lies in
\* [now - window, now], in timestamp order, and changes neither the event log
\* nor the graph.
C15_QueryReturnsWindow ==
    [][(kgOut'.op = "query" /\ kgOut' # kgOut) =>
          /\ ReturnedEvents(kgOut') = ContextEvents(kgOut'.entity_id,
                                                    kgOut'.context_window_hours)
          /\ UNCHANGED kgData]_vars


\* the hours of day whose count of events, among the events of the lookback
\* window, is more than 1.5 times the mean count per hour of day with events
PeakHours(days) ==
    LET es == LookbackEvents(days)
        hours == {HourOf(es[i].timestamp) : i \in 1..Len(es)}
    IN  {h \in hours :
            2 * Cardinality(hours) * Cardinality({i \in 1..Len(es) :
                                                     HourOf(es[i].timestamp) = h})
                > 3 * Len(es)}

\* C16: detect_patterns returns a temporal_peak pattern naming the peak hour
\* when one hour of day holds more than 1.5 times the mean hourly count, and
\* no temporal_peak pattern otherwise.
C16_TemporalPeakDetected ==
    [][(kgOut'.op = "detect" /\ kgOut' # kgOut) =>
          LET peaks == {i \in 1..Len(kgOut'.patterns) :
                           kgOut'.patterns[i].pattern_type = "temporal_peak"}
          IN  IF PeakHours(kgOut'.lookback_days) # {}
              THEN \E i \in peaks :
                      kgOut'.patterns[i].peak \in PeakHours(kgOut'.lookback_days)
              ELSE peaks = {}]_vars


\* C19: consolidate_daily_data records one cycle row per call, which is
\* 'completed' or 'failed' once the call has ended: a call that raises leaves
\* its row 'failed' with the error it raised, a call that returns leaves it
\* 'completed', and no row is left 'running'.
C19_CycleCompletedOrFailed ==
    /\ \A i \in 1..Len(cycles) : cycles[i].status \in {"completed", "failed"}
    /\ kgOut.op = "consolidate" =>
          IF kgOut.raised
          THEN /\ cycles[kgOut.cycle].status = "failed"
               /\ cycles[kgOut.cycle].error_message = kgOut.error
          ELSE cycles[kgOut.cycle].status = "completed"


\* C24: no store operation ever lowers the weight or the interaction_count of
\* an edge or removes the edge: every edge row is still there after the step
\* with a weight and a count at least as large, its count is larger by exactly
\* 1 when the step stored an event for the edge's (agent, project) pair and
\* unchanged otherwise, and the weight of the edge in the in-memory graph does
\* not decrease either.
C24_EdgeNeverWeakened ==
    [][/\ \A e \in dbEdges :
             \E e2 \in dbEdges' :
                /\ e2.id = e.id
                /\ e2.from_node_id = e.from_node_id
                /\ e2.to_node_id = e.to_node_id
                /\ e2.weight >= e.weight
                /\ e2.interaction_count =
                      IF /\ Len(events') = Len(events) + 1
                         /\ e \in WorksOnEdges(events'[Len(events')].agent_id,
                                               events'[Len(events')].project_id)
                      THEN e.interaction_count + 1
                      ELSE e.interaction_count
       /\ \A ge \in gEdges :
             \E ge2 \in gEdges' :
                ge2.from = ge.from /\ ge2.to = ge.to /\ ge2.weight >= ge.weight]_vars

\* an edge was observed again after its weight had reached the cap
C24_Witness ==
    \E e \in dbEdges : e.interaction_count = 13 /\ e.weight = WeightCap


\* C25: the in-memory graph of a store initialised over persisted data holds
\* every persisted node and every persisted edge with its weight; and a
\* store_agent_event made after a restart for a pair whose works_on edge was
\* persisted strengthens that edge (interaction_count + 1, weight + 0.1 capped
\* at 2.0), in the table and in the graph, and adds no node and no edge.
C25_RestartKeepsGraph ==
    [][/\ (kgOut'.op = "initialize" /\ kgOut' # kgOut) =>
             /\ UNCHANGED <<events, dbNodes, dbEdges>>
             /\ \A n \in dbNodes : n.id \in gNodes'
             /\ \A e \in dbEdges :
                   \E ge \in gEdges' : /\ ge.from = e.from_node_id
                                       /\ ge.to = e.to_node_id
                                       /\ ge.weight = e.weight
       /\ (kgOut.op = "initialize" /\ Len(events') = Len(events) + 1) =>
             \A e \in WorksOnEdges(events'[Len(events')].agent_id,
                                   events'[Len(events')].project_id) :
                /\ Cardinality(dbNodes') = Cardinality(dbNodes)
                /\ Cardinality(dbEdges') = Cardinality(dbEdges)
                /\ Cardinality(gNodes') = Cardinality(gNodes)
                /\ Cardinality(gEdges') = Cardinality(gEdges)
                /\ \E e2 \in dbEdges' :
                      /\ e2.id = e.id
                      /\ e2.interaction_count = e.interaction_count + 1
                      /\ e2.weight = Min(e.weight + WeightStep, WeightCap)
                      /\ \E ge \in gEdges' : /\ ge.from = e.from_node_id
                                             /\ ge.to = e.to_node_id
                                             /\ ge.weight = e2.weight]_vars

\* an edge that was loaded at the restart has been strengthened since
C25_Witness ==
    /\ kgOut.op = "initialize"
    /\ \E ge \in kgOut.edges, e \in dbEdges :
          /\ e.from_node_id = ge.from
          /\ e.to_node_id = ge.to
          /\ e.weight = ge.weight + WeightStep
          /\ \E g2 \in gEdges : g2.from = ge.from /\ g2.to = ge.to
                                /\ g2.weight = e.weight


\* C22: a store_agent_event call during which a step of the graph update
\* fails still returns normally, and the event it appended is in the event
\* log after the call.
C22_GraphFailureNotRaised ==
    [][(kgCalls' = kgCalls + 1 /\ kgOut'.op = "store") =>
          /\ ~kgOut'.raised
          /\ Len(events') = Len(events) + 1
          /\ SubSeq(events', 1, Len(events)) = events
          /\ events'[Len(events')].agent_id = kgOut'.agent_id
          /\ events'[Len(events')].project_id = kgOut'.project_id]_vars

\* the upsert of the works_on edge failed: the event is logged, the two nodes
\* exist and there is no edge
C22_Witness ==
    /\ kgOut.op = "store"
    /\ kgOut.fault = "edge"
    /\ kgOut.project_id # NoProject
    /\ events # <<>>
    /\ dbEdges = {}
    /\ Cardinality(dbNodes) = 2


(***************************************************************************)
(* Orchestration coordinator: OrchestraManager                             *)
(***************************************************************************)
\* a key that is not in the dictionary
NoEntry == 0

\* statuses the coordinator broadcasts
Statuses == {"running", "completed", "error", "idle"}

\* parameters.get("project_id") of the requests that start each agent: the
\* requests for a1 name a project, those for a2 name none
ProjectParam == [a \in AgentIds |-> IF a = "a1" THEN "p1" ELSE NoProject]

\* agent_id of the events of an orchestration (orchestration_id)
OrchestrationId == "orchestration"

\* no orchestration id generated yet
NoOrchestration == "none"

\* execute_task has not returned a result that reports on a workspace
NoResult == [workspace_id |-> NoOrchestration, shared_insights |-> 0]

\* ConstructionAgent, the class _create_orchestra_agent instantiates for
\* every agent type, defines no stop method
HasStopMethod == FALSE

\* TemporalKnowledgeGraph defines no _extract_entities_from_result and no
\* _update_orchestration_graph: calling them raises AttributeError
HasExtractEntities == FALSE
HasUpdateOrchestrationGraph == FALSE

CoInit ==
    /\ active_agents = [a \in AgentIds |-> NoEntry]
    /\ agent_tasks = [a \in AgentIds |-> NoEntry]
    /\ tasks = <<>>
    /\ calls = <<>>
    /\ seq = [pc |-> "idle", plan |-> <<>>, k |-> 0, awaiting |-> NoEntry,
              started |-> <<>>]
    /\ orch = [pc |-> "idle", strategy |-> "none", plan |-> <<>>, k |-> 0,
               started |-> <<>>, id |-> NoOrchestration, workspace |-> NoEntry,
               error |-> "none"]
    /\ heap = <<>>
    /\ bcasts = [x \in AgentIds \X Statuses |-> 0]
    /\ shut = [pc |-> "idle", pending |-> <<>>, found |-> {}, call |-> NoEntry,
               error |-> FALSE, orchestra_stopped |-> FALSE, graph_closed |-> FALSE]
    /\ coOut = [op |-> "none"]
    /\ apiCalls = 0

\* the coordinator and the knowledge graph as one value, threaded through the
\* statements a coroutine runs between two suspension points
CoNow == [active |-> active_agents, handles |-> agent_tasks, tasks |-> tasks,
          calls |-> calls, seq |-> seq, orch |-> orch, heap |-> heap,
          bcasts |-> bcasts, shut |-> shut, out |-> coOut, kg |-> KGNow]

CoSet(w) ==
    /\ active_agents' = w.active
    /\ agent_tasks' = w.handles
    /\ tasks' = w.tasks
    /\ calls' = w.calls
    /\ seq' = w.seq
    /\ orch' = w.orch
    /\ heap' = w.heap
    /\ bcasts' = w.bcasts
    /\ shut' = w.shut
    /\ coOut' = w.out
    /\ KGSet(w.kg)
    /\ UNCHANGED <<supVars, kgCalls, wsVars, svcVars, sessVars>>

\* asyncio.Task.done(): finished, cancelled or failed
Settled(t) == t.pc \in {"done", "cancelled"}

\* websocket_manager.broadcast_agent_update returned
Broadcast(w, a, status) ==
    [w EXCEPT !.bcasts[<<a, status>>] = @ + 1]

StoreEvent(w, a, type, data, project) ==
    [w EXCEPT !.kg = StoreAgentEventIn(@, a, type, data, project)]

\* start_agent, lines 94-116: the agent is built and registered, the task is
\* created and registered, and the call suspends in the Running broadcast.
\* There is no test of agent_id against active_agents.
StartAgentBegin(w, a, project, owner) ==
    LET cid == Len(w.calls) + 1
        tid == Len(w.tasks) + 1
    IN  [w EXCEPT
            !.active[a] = cid,
            !.tasks = Append(@, [agent |-> a, pc |-> "ready", run |-> cid,
                                 project |-> project, cancel |-> FALSE,
                                 workspace |-> NoEntry, wrote |-> FALSE,
                                 result |-> NoResult]),
            !.handles[a] = tid,
            !.calls = Append(@, [kind |-> "start", agent |-> a,
                                 pc |-> "bcast_start", owner |-> owner,
                                 task |-> tid])]

\* store_orchestration_event (lines 121-144): the event is committed, then
\* _update_orchestration_graph is called; orchestrate_agents (lines 227-236)
\* returns the id or re-raises
SeqFinish(w) ==
    LET w1 == [w EXCEPT !.kg.events =
                  Append(@, Event("orchestration_start", OrchestrationId,
                                  NoProject, "plan"))]
    IN  [w1 EXCEPT !.seq.pc = IF HasUpdateOrchestrationGraph THEN "returned"
                              ELSE "raised"]

\* _orchestrate_sequential, lines 352-358: the next specification of the plan
\* is started, or the loop ends
SeqNext(w) ==
    IF w.seq.k = Len(w.seq.plan)
    THEN SeqFinish(w)
    ELSE LET k == w.seq.k + 1
             a == w.seq.plan[k]
             w1 == StartAgentBegin(w, a, ProjectParam[a], "seq")
         IN  [w1 EXCEPT !.seq.k = k, !.seq.pc = "in_start",
                        !.seq.started = Append(@, Len(w1.calls))]

\* what awaiting task t does to the sequential loop once t is settled: a
\* finished task lets the loop go on, a cancelled one raises CancelledError
\* out of orchestrate_agents
SeqAfterTask(w, t) ==
    IF w.tasks[t].pc = "cancelled"
    THEN [w EXCEPT !.seq.pc = "cancelled", !.seq.awaiting = NoEntry]
    ELSE SeqNext([w EXCEPT !.seq.awaiting = NoEntry])

\* _orchestrate_sequential, lines 360-362, after start_agent returned:
\* if agent_id in self.agent_tasks: await self.agent_tasks[agent_id]
SeqAwait(w) ==
    LET a == w.seq.plan[w.seq.k]
        t == w.handles[a]
    IN  IF t = NoEntry
        THEN SeqNext(w)
        ELSE IF Settled(w.tasks[t])
             THEN SeqAfterTask(w, t)
             ELSE [w EXCEPT !.seq.pc = "await", !.seq.awaiting = t]


\* orchestrate_agents, lines 222-236, after the strategy handler returned:
\* store_orchestration_event commits the event and calls
\* _update_orchestration_graph
OrchFinish(w) ==
    LET w1 == [w EXCEPT !.kg.events =
                  Append(@, Event("orchestration_start", w.orch.id, NoProject,
                                  w.orch.plan))]
    IN  IF HasUpdateOrchestrationGraph
        THEN [w1 EXCEPT !.orch.pc = "returned"]
        ELSE [w1 EXCEPT !.orch.pc = "raised", !.orch.error = "AttributeError"]

\* mutant: every spec is given a copy of the workspace dictionary
InjectWorkspace_Copy(w) ==
    [world |-> [w EXCEPT !.heap = Append(@, w.heap[w.orch.workspace])],
     ref |-> Len(w.heap) + 1]

\* _orchestrate_collaborative, line 380: parameters["workspace"] = workspace
\* stores a reference to the one dictionary built at lines 369-373
InjectWorkspace(w) == [world |-> w, ref |-> w.orch.workspace]

\* _orchestrate_collaborative, lines 375-383: the next spec is given the
\* workspace and started, or the loop ends and orchestrate_agents goes on
CollabNext(w) ==
    IF w.orch.k = Len(w.orch.plan)
    THEN OrchFinish(w)
    ELSE LET k == w.orch.k + 1
             a == w.orch.plan[k]
             inj == InjectWorkspace(w)
             w1 == StartAgentBegin(inj.world, a, ProjectParam[a], "collab")
         IN  [w1 EXCEPT !.tasks[Len(w1.tasks)].workspace = inj.ref,
                        !.orch.k = k,
                        !.orch.started = Append(@, Len(w1.calls))]

\* start_agent, lines 116-123: the broadcast returned, the start event is
\* stored and the call returns to its caller
StartAgentReturn(w, c) ==
    LET a == w.calls[c].agent
        w1 == Broadcast(w, a, "running")
        w2 == StoreEvent(w1, a, "start", c, NoProject)
        w3 == [w2 EXCEPT !.calls[c].pc = "returned"]
    IN  CASE w.calls[c].owner = "seq" -> SeqAwait(w3)
          [] w.calls[c].owner = "collab" -> CollabNext(w3)
          [] OTHER -> w3

\* stop_agent, lines 151-165: the agent, when registered, is stopped and
\* removed; the call suspends in the Idle broadcast. A registered agent has no
\* stop method: the AttributeError leaves through line 174
StopAgentAfterTask(w, c) ==
    LET a == w.calls[c].agent
    IN  IF w.active[a] # NoEntry
        THEN IF HasStopMethod
             THEN [w EXCEPT !.active[a] = NoEntry, !.calls[c].pc = "bcast_idle"]
             ELSE [w EXCEPT !.calls[c].pc = "raised"]
        ELSE [w EXCEPT !.calls[c].pc = "bcast_idle"]

\* stop_agent, line 149: del self.agent_tasks[agent_id] (KeyError when another
\* call removed the key meanwhile)
StopAgentDelTask(w, c) ==
    LET a == w.calls[c].agent
    IN  IF w.handles[a] = NoEntry
        THEN [w EXCEPT !.calls[c].pc = "raised"]
        ELSE StopAgentAfterTask([w EXCEPT !.handles[a] = NoEntry], c)

\* stop_agent, lines 140-149: a task that is not done is cancelled and awaited
StopAgentBegin(w, a) ==
    LET c == Len(w.calls) + 1
        t == w.handles[a]
        w1 == [w EXCEPT !.calls = Append(@, [kind |-> "stop", agent |-> a,
                                             pc |-> "begin", owner |-> "api",
                                             task |-> t])]
    IN  IF t = NoEntry
        THEN StopAgentAfterTask(w1, c)
        ELSE IF Settled(w1.tasks[t])
             THEN StopAgentDelTask(w1, c)
             ELSE [w1 EXCEPT !.tasks[t].cancel = TRUE,
                             !.calls[c].pc = "await_task"]

\* stop_agent, lines 157-170: the broadcast returned, the stop event is stored
StopAgentReturn(w, c) ==
    LET a == w.calls[c].agent
        w1 == Broadcast(w, a, "idle")
        w2 == StoreEvent(w1, a, "stop", c, NoProject)
    IN  [w2 EXCEPT !.calls[c].pc = "returned"]

\* _run_agent_task, lines 267-287: the task starts to run and suspends in its
\* first broadcast (a missing active_agents key sends it to the handler)
TaskBegin(w, t) ==
    IF w.active[w.tasks[t].agent] = NoEntry
    THEN [w EXCEPT !.tasks[t].pc = "bcast_error"]
    ELSE [w EXCEPT !.tasks[t].pc = "running"]

\* _process_collaborative_workspace (construction_agent.py, lines 464-479):
\* what the result of execute_task reports about parameters["workspace"]
ProcessCollaborativeWorkspace(w, t) ==
    LET ref == w.tasks[t].workspace
    IN  IF ref = NoEntry
        THEN NoResult
        ELSE [workspace_id |-> w.heap[ref].orchestration_id,
              shared_insights |-> Cardinality(w.heap[ref].shared_data)]

\* _run_agent_task, lines 279-302: execute_task returns or raises; the task
\* suspends in the Completed broadcast or, in the handler, in the Error one
TaskExecuted(w, t, ok) ==
    LET w1 == Broadcast(w, w.tasks[t].agent, "running")
    IN  [w1 EXCEPT !.tasks[t].pc = IF ok THEN "bcast_completed" ELSE "bcast_error",
                   !.tasks[t].result = IF ok THEN ProcessCollaborativeWorkspace(w, t)
                                       ELSE @]

\* _run_agent_task, lines 293-309: the Completed broadcast returned and
\* store_task_result stores the task_execution event, then calls
\* _extract_entities_from_result
TaskCompleted(w, t) ==
    LET tk == w.tasks[t]
        w1 == Broadcast(w, tk.agent, "completed")
        w2 == StoreEvent(w1, tk.agent, "task_execution", tk.run, tk.project)
    IN  [w2 EXCEPT !.tasks[t].pc = IF HasExtractEntities THEN "done"
                                   ELSE "bcast_error"]

\* _run_agent_task, lines 311-327: the Error broadcast returned and the error
\* event is stored
TaskFailed(w, t) ==
    LET tk == w.tasks[t]
        w1 == Broadcast(w, tk.agent, "error")
        w2 == StoreEvent(w1, tk.agent, "error", tk.run, NoProject)
    IN  [w2 EXCEPT !.tasks[t].pc = "done"]

\* an outside caller (the HTTP API) calls start_agent
ApiStartAgent ==
    /\ apiCalls < MaxApiCalls
    /\ apiCalls' = apiCalls + 1
    /\ \E a \in AgentIds :
          CoSet(StartAgentBegin(CoNow, a, ProjectParam[a], "api"))

\* an outside caller (the HTTP API) calls stop_agent
ApiStopAgent ==
    /\ apiCalls < MaxApiCalls
    /\ apiCalls' = apiCalls + 1
    /\ \E a \in AgentIds : CoSet(StopAgentBegin(CoNow, a))

\* the Running broadcast of a start_agent call returns
StartAgentResume ==
    /\ \E c \in DOMAIN calls :
          /\ calls[c].kind = "start"
          /\ calls[c].pc = "bcast_start"
          /\ CoSet(StartAgentReturn(CoNow, c))
    /\ UNCHANGED apiCalls

\* the task a stop_agent call cancelled and awaits is settled
StopAgentTaskSettled ==
    /\ \E c \in DOMAIN calls :
          /\ calls[c].kind = "stop"
          /\ calls[c].pc = "await_task"
          /\ Settled(tasks[calls[c].task])
          /\ CoSet(StopAgentDelTask(CoNow, c))
    /\ UNCHANGED apiCalls

\* the Idle broadcast of a stop_agent call returns
StopAgentResume ==
    /\ \E c \in DOMAIN calls :
          /\ calls[c].kind = "stop"
          /\ calls[c].pc = "bcast_idle"
          /\ CoSet(StopAgentReturn(CoNow, c))
    /\ UNCHANGED apiCalls

\* the event loop runs a task for the first time
TaskStart ==
    /\ \E t \in DOMAIN tasks :
          /\ tasks[t].pc = "ready"
          /\ ~tasks[t].cancel
          /\ CoSet(TaskBegin(CoNow, t))
    /\ UNCHANGED apiCalls

\* a task resumes from its first broadcast and execute_task ends
TaskExecute ==
    /\ \E t \in DOMAIN tasks, ok \in BOOLEAN :
          /\ tasks[t].pc = "running"
          /\ ~tasks[t].cancel
          /\ CoSet(TaskExecuted(CoNow, t, ok))
    /\ UNCHANGED apiCalls

\* a task resumes from its Completed broadcast
TaskCompletedResume ==
    /\ \E t \in DOMAIN tasks :
          /\ tasks[t].pc = "bcast_completed"
          /\ ~tasks[t].cancel
          /\ CoSet(TaskCompleted(CoNow, t))
    /\ UNCHANGED apiCalls

\* a task resumes from its Error broadcast
TaskFailedResume ==
    /\ \E t \in DOMAIN tasks :
          /\ tasks[t].pc = "bcast_error"
          /\ ~tasks[t].cancel
          /\ CoSet(TaskFailed(CoNow, t))
    /\ UNCHANGED apiCalls

\* Task.cancel(): CancelledError is thrown into the task at its suspension
\* point; neither except Exception clause handles it
TaskCancelled ==
    /\ \E t \in DOMAIN tasks :
          /\ tasks[t].cancel
          /\ ~Settled(tasks[t])
          /\ tasks' = [tasks EXCEPT ![t].pc = "cancelled"]
    /\ UNCHANGED <<active_agents, agent_tasks, calls, seq, orch, heap, bcasts,
                   shut, coOut, apiCalls, kgVars, supVars, kgCalls, wsVars, svcVars, sessVars>>

\* orchestrate_agents with strategy "sequential" (lines 200-219, 348-358)
OrchestrateSequential ==
    /\ seq.pc = "idle"
    /\ \E plan \in [1..PlanLen -> AgentIds] :
          CoSet(SeqNext([CoNow EXCEPT !.seq.plan = plan]))
    /\ UNCHANGED apiCalls

\* the task the sequential loop awaits is settled
SeqWake ==
    /\ seq.pc = "await"
    /\ Settled(tasks[seq.awaiting])
    /\ CoSet(SeqAfterTask(CoNow, seq.awaiting))
    /\ UNCHANGED apiCalls

CoNext ==
    \/ ApiStartAgent
    \/ ApiStopAgent
    \/ StartAgentResume
    \/ StopAgentTaskSettled
    \/ StopAgentResume
    \/ TaskStart
    \/ TaskExecute
    \/ TaskCompletedResume
    \/ TaskFailedResume
    \/ TaskCancelled
    \/ OrchestrateSequential
    \/ SeqWake



\* start_agent, lines 119-136: store_agent_event raises because the commit of
\* the event row fails; the handler suspends in the Error broadcast
StartAgentStoreFails(w, c) ==
    LET w1 == Broadcast(w, w.calls[c].agent, "running")
    IN  [w1 EXCEPT !.calls[c].pc = "bcast_fail"]

\* start_agent, lines 127-136: the Error broadcast returned and the exception
\* is re-raised; it ends a sequential or collaborative loop that awaits the
\* call, while the gather of the parallel handler keeps it as a result
StartAgentRaise(w, c) ==
    LET w1 == Broadcast(w, w.calls[c].agent, "error")
        w2 == [w1 EXCEPT !.calls[c].pc = "raised"]
    IN  CASE w.calls[c].owner = "seq" -> [w2 EXCEPT !.seq.pc = "raised"]
          [] w.calls[c].owner = "collab" ->
                [w2 EXCEPT !.orch.pc = "raised", !.orch.error = "start_agent"]
          [] OTHER -> w2

\* orchestrate_agents with strategy "parallel" (lines 200-217, 333-346): one
\* asyncio task per spec is created for start_agent, none has run yet, and the
\* handler suspends in gather
OrchestrateParallel ==
    /\ orch.pc = "idle"
    /\ \E plan \in [1..PlanLen -> AgentIds] :
          CoSet([CoNow EXCEPT !.orch = [@ EXCEPT !.pc = "gather",
                                                 !.strategy = "parallel",
                                                 !.plan = plan,
                                                 !.id = OrchestrationId]])
    /\ UNCHANGED apiCalls

\* the event loop runs the next start_agent task of the parallel handler (tasks
\* start in the order of their creation) up to its Running broadcast
ParStartBegin ==
    /\ orch.pc = "gather"
    /\ orch.strategy = "parallel"
    /\ orch.k < Len(orch.plan)
    /\ LET a == orch.plan[orch.k + 1]
           w1 == StartAgentBegin(CoNow, a, ProjectParam[a], "par")
       IN  CoSet([w1 EXCEPT !.orch.k = @ + 1,
                            !.orch.started = Append(@, Len(w1.calls))])
    /\ UNCHANGED apiCalls

\* mutant: gather without return_exceptions, which raises the first failure
ParGatherEnd_Raising(w) ==
    IF \E i \in DOMAIN w.orch.started : w.calls[w.orch.started[i]].pc = "raised"
    THEN [w EXCEPT !.orch.pc = "raised", !.orch.error = "start_agent"]
    ELSE OrchFinish(w)

\* _orchestrate_parallel, line 346: gather(*tasks, return_exceptions=True)
\* returns the results and the exceptions as a list, which is dropped
ParGatherEnd(w) == OrchFinish(w)

\* every start_agent task of the parallel handler has ended
ParGatherDone ==
    /\ orch.pc = "gather"
    /\ orch.strategy = "parallel"
    /\ orch.k = Len(orch.plan)
    /\ \A i \in DOMAIN orch.started :
          calls[orch.started[i]].pc \in {"returned", "raised"}
    /\ CoSet(ParGatherEnd(CoNow))
    /\ UNCHANGED apiCalls

\* store_agent_event fails in a start_agent call
StartAgentFails ==
    /\ \E c \in DOMAIN calls :
          /\ calls[c].kind = "start"
          /\ calls[c].pc = "bcast_start"
          /\ CoSet(StartAgentStoreFails(CoNow, c))
    /\ UNCHANGED apiCalls

\* the Error broadcast of a failed start_agent call returns
StartAgentFailResume ==
    /\ \E c \in DOMAIN calls :
          /\ calls[c].kind = "start"
          /\ calls[c].pc = "bcast_fail"
          /\ CoSet(StartAgentRaise(CoNow, c))
    /\ UNCHANGED apiCalls

ParNext ==
    \/ OrchestrateParallel
    \/ ParStartBegin
    \/ ParGatherDone
    \/ StartAgentResume
    \/ StartAgentFails
    \/ StartAgentFailResume
    \/ TaskStart
    \/ TaskExecute
    \/ TaskCompletedResume
    \/ TaskFailedResume

\* orchestrate_agents with strategy "collaborative" (lines 200-221, 364-383):
\* the workspace dictionary is built and the first spec is started
OrchestrateCollaborative ==
    /\ orch.pc = "idle"
    /\ \E plan \in [1..PlanLen -> AgentIds] :
          LET w == CoNow
              w1 == [w EXCEPT
                        !.heap = Append(@, [orchestration_id |-> OrchestrationId,
                                            shared_data |-> {}]),
                        !.orch = [@ EXCEPT !.pc = "in_start",
                                           !.strategy = "collaborative",
                                           !.plan = plan,
                                           !.id = OrchestrationId,
                                           !.workspace = Len(w.heap) + 1]]
          IN  CoSet(CollabNext(w1))
    /\ UNCHANGED apiCalls

\* the body of a running task stores a finding of its agent in the
\* shared_data dictionary of the workspace it was given
WorkspaceWrite ==
    /\ \E t \in DOMAIN tasks :
          /\ tasks[t].pc = "running"
          /\ tasks[t].workspace # NoEntry
          /\ ~tasks[t].wrote
          /\ CoSet([CoNow EXCEPT
                       !.heap[tasks[t].workspace].shared_data = @ \cup {tasks[t].agent},
                       !.tasks[t].wrote = TRUE])
    /\ UNCHANGED apiCalls

CollaborativeNext ==
    \/ OrchestrateCollaborative
    \/ WorkspaceWrite
    \/ StartAgentResume
    \/ StartAgentFails
    \/ StartAgentFailResume
    \/ TaskStart
    \/ TaskExecute
    \/ TaskCompletedResume
    \/ TaskFailedResume

\* start_agent, lines 94-96 and 125-135: _create_orchestra_agent raises, so
\* nothing is registered and no task is created; the handler suspends in the
\* Error broadcast
StartAgentCreateFails(w, a, owner) ==
    [w EXCEPT !.calls = Append(@, [kind |-> "start", agent |-> a,
                                   pc |-> "bcast_fail", owner |-> owner,
                                   task |-> NoEntry])]

\* an outside caller calls start_agent and the agent cannot be built
ApiStartAgentCreateFails ==
    /\ apiCalls < MaxApiCalls
    /\ apiCalls' = apiCalls + 1
    /\ \E a \in AgentIds : CoSet(StartAgentCreateFails(CoNow, a, "api"))

\* start_agent calls from the API and from a sequential orchestration, each of
\* which may fail before or after the agent is registered
StartFailureNext ==
    \/ ApiStartAgent
    \/ ApiStartAgentCreateFails
    \/ OrchestrateSequential
    \/ SeqWake
    \/ StartAgentResume
    \/ StartAgentFails
    \/ StartAgentFailResume
    \/ TaskStart
    \/ TaskExecute
    \/ TaskCompletedResume
    \/ TaskFailedResume

\* a sequential orchestration whose start_agent calls may fail
SequentialNext ==
    \/ OrchestrateSequential
    \/ SeqWake
    \/ StartAgentResume
    \/ StartAgentFails
    \/ StartAgentFailResume
    \/ TaskStart
    \/ TaskExecute
    \/ TaskCompletedResume
    \/ TaskFailedResume

\* list(self.active_agents.keys()): the registered ids in insertion order. No
\* key is ever deleted while HasStopMethod is FALSE, so the order is that of
\* the first start_agent call of each id
ActiveKeys(w) ==
    LET ids == {a \in AgentIds : w.active[a] # NoEntry}
        first(a) == CHOOSE c \in DOMAIN w.calls :
                       /\ w.calls[c].kind = "start" /\ w.calls[c].agent = a
                       /\ \A d \in 1..(c - 1) :
                             ~(w.calls[d].kind = "start" /\ w.calls[d].agent = a)
    IN  CHOOSE keys \in [1..Cardinality(ids) -> ids] :
            \A i, j \in 1..Cardinality(ids) : i < j => first(keys[i]) < first(keys[j])

\* shutdown, lines 398-401: an exception of stop_agent, orchestra.stop or
\* knowledge_graph.close is logged and shutdown returns
ShutdownCaught(w) ==
    [w EXCEPT !.shut.pc = "returned", !.shut.error = TRUE, !.shut.call = NoEntry]

\* shutdown, lines 389-396: stop_agent is called for the next id of the list;
\* after the last one orchestra.stop() and knowledge_graph.close() run
ShutdownLoop(w) ==
    IF w.shut.pending = <<>>
    THEN [w EXCEPT !.shut.pc = "returned", !.shut.call = NoEntry,
                   !.shut.orchestra_stopped = TRUE, !.shut.graph_closed = TRUE]
    ELSE LET a == Head(w.shut.pending)
             c == Len(w.calls) + 1
             w1 == [StopAgentBegin(w, a) EXCEPT !.calls[c].owner = "shutdown"]
             w2 == [w1 EXCEPT !.shut.pc = "in_stop", !.shut.call = c,
                              !.shut.pending = Tail(@)]
         IN  IF w2.calls[c].pc = "raised" THEN ShutdownCaught(w2) ELSE w2

\* shutdown, lines 385-390: the list of the registered ids is taken
ShutdownBegin(w) ==
    ShutdownLoop([w EXCEPT !.shut.pending = ActiveKeys(w),
                           !.shut.found = {a \in AgentIds : w.active[a] # NoEntry}])

\* the stop_agent call made by shutdown resumes: from the await of the task it
\* cancelled, or from its Idle broadcast; when it returns the loop goes on,
\* when it raises the handler of shutdown runs
ShutdownStopStep(w) ==
    LET c == w.shut.call
        w1 == IF w.calls[c].pc = "await_task"
              THEN StopAgentDelTask(w, c)
              ELSE StopAgentReturn(w, c)
    IN  CASE w1.calls[c].pc = "raised" -> ShutdownCaught(w1)
          [] w1.calls[c].pc = "returned" -> ShutdownLoop(w1)
          [] OTHER -> w1

\* an outside caller calls start_agent, before or during the shutdown
ShutdownStartAgent ==
    /\ Cardinality({c \in DOMAIN calls : calls[c].kind = "start"}) < MaxShutdownStarts
    /\ \E a \in AgentIds :
          CoSet(StartAgentBegin(CoNow, a, ProjectParam[a], "api"))
    /\ UNCHANGED apiCalls

\* the application's lifespan handler calls shutdown
Shutdown ==
    /\ shut.pc = "idle"
    /\ CoSet(ShutdownBegin(CoNow))
    /\ UNCHANGED apiCalls

\* the stop_agent call of the shutdown can go on
ShutdownStopResume ==
    /\ shut.pc = "in_stop"
    /\ \/ calls[shut.call].pc = "await_task" /\ Settled(tasks[calls[shut.call].task])
       \/ calls[shut.call].pc = "bcast_idle"
    /\ CoSet(ShutdownStopStep(CoNow))
    /\ UNCHANGED apiCalls

ShutdownNext ==
    \/ ShutdownStartAgent
    \/ StartAgentResume
    \/ TaskStart
    \/ TaskExecute
    \/ TaskCompletedResume
    \/ TaskFailedResume
    \/ TaskCancelled
    \/ Shutdown
    \/ ShutdownStopResume


\* ConstructionAgent._get_platform_capabilities for the platform "demo": the
\* base capabilities and those of the platform
Capabilities == {"data_extraction", "document_processing", "analytics", "reporting",
                 "simulation", "testing", "validation"}

\* ConstructionAgent.current_task outside execute_task
NoCurrentTask == "None"

\* the task type of the start_agent calls
TaskType == "extract_project_data"

\* neither ConstructionAgent nor its base class sets an attribute "status"
HasStatusAttribute == FALSE

\* ConstructionAgent.current_task of the agent object built by call c: the
\* task type while a task that runs on this object is inside execute_task
\* (lines 111, 133, 138 of construction_agent.py)
CurrentTask(w, c) ==
    IF \E t \in DOMAIN w.tasks : w.tasks[t].run = c /\ w.tasks[t].pc = "executing"
    THEN TaskType
    ELSE NoCurrentTask

\* mutant: get_agent_status answering every id as it answers an unknown one
GetAgentStatus_Default(w, a) ==
    [w EXCEPT !.out = [op |-> "status", agent_id |-> a, status |-> "idle",
                       orchestra_status |-> "not_running", capabilities |-> {},
                       current_task |-> NoCurrentTask, raised |-> FALSE]]

\* get_agent_status (lines 176-198)
GetAgentStatus(w, a) ==
    IF w.active[a] # NoEntry
    THEN [w EXCEPT !.out =
            [op |-> "status", agent_id |-> a,
             status |-> IF w.handles[a] # NoEntry THEN "running" ELSE "idle",
             orchestra_status |-> IF HasStatusAttribute THEN "idle" ELSE "unknown",
             capabilities |-> Capabilities,
             current_task |-> CurrentTask(w, w.active[a]),
             raised |-> FALSE]]
    ELSE [w EXCEPT !.out =
            [op |-> "status", agent_id |-> a, status |-> "idle",
             orchestra_status |-> "not_running", capabilities |-> {},
             current_task |-> NoCurrentTask, raised |-> FALSE]]

\* an outside caller (the HTTP API) asks for the status of an agent
ApiGetAgentStatus ==
    /\ \E a \in AgentIds : CoSet(GetAgentStatus(CoNow, a))
    /\ UNCHANGED apiCalls

\* a task resumes from its first broadcast and enters execute_task, which
\* suspends in the handler of the task type
TaskEnterExecute ==
    /\ \E t \in DOMAIN tasks :
          /\ tasks[t].pc = "running"
          /\ ~tasks[t].cancel
          /\ CoSet([Broadcast(CoNow, tasks[t].agent, "running") EXCEPT
                       !.tasks[t].pc = "executing"])
    /\ UNCHANGED apiCalls

\* execute_task returns or raises
TaskLeaveExecute ==
    /\ \E t \in DOMAIN tasks, ok \in BOOLEAN :
          /\ tasks[t].pc = "executing"
          /\ ~tasks[t].cancel
          /\ CoSet([CoNow EXCEPT
                       !.tasks[t].pc = IF ok THEN "bcast_completed" ELSE "bcast_error",
                       !.tasks[t].result = IF ok THEN ProcessCollaborativeWorkspace(CoNow, t)
                                           ELSE @])
    /\ UNCHANGED apiCalls

StatusNext ==
    \/ ShutdownStartAgent
    \/ ApiStopAgent
    \/ ApiGetAgentStatus
    \/ StartAgentResume
    \/ StopAgentTaskSettled
    \/ StopAgentResume
    \/ TaskStart
    \/ TaskEnterExecute
    \/ TaskLeaveExecute
    \/ TaskCompletedResume
    \/ TaskFailedResume
    \/ TaskCancelled

\* agents started from the API whose tasks run to their end, with status
\* queries at any time
SettleNext ==
    \/ ApiStartAgent
    \/ ApiGetAgentStatus
    \/ StartAgentResume
    \/ TaskStart
    \/ TaskExecute
    \/ TaskCompletedResume
    \/ TaskFailedResume

\* the event loop runs every coroutine that is ready: a suspended start_agent
\* call and a task that can go on are resumed
SettleFairness ==
    /\ WF_vars(StartAgentResume)
    /\ WF_vars(TaskStart)
    /\ WF_vars(TaskExecute)
    /\ WF_vars(TaskCompletedResume)
    /\ WF_vars(TaskFailedResume)


(***************************************************************************)
(* Claims about the coordinator                                            *)
(***************************************************************************)
\* the task registered for agent id a is still executing
LiveTask(a) ==
    /\ agent_tasks[a] # NoEntry
    /\ ~Settled(tasks[agent_tasks[a]])

\* the tasks executing on behalf of agent id a
LiveTasks(a) == {t \in DOMAIN tasks : tasks[t].agent = a /\ ~Settled(tasks[t])}

\* C3: a start_agent call for an agent id that already has a live agent and
\* task fails: the registered agent and task handle stay in place and no new
\* task is created.
C3_StartOfLiveAgentRejected ==
    [][\A a \in AgentIds :
          ( /\ Len(calls') = Len(calls) + 1
            /\ calls'[Len(calls')].kind = "start"
            /\ calls'[Len(calls')].agent = a
            /\ active_agents[a] # NoEntry
            /\ LiveTask(a) )
          => ( /\ calls'[Len(calls')].pc = "raised"
               /\ active_agents'[a] = active_agents[a]
               /\ agent_tasks'[a] = agent_tasks[a]
               /\ Len(tasks') = Len(tasks) )]_vars

\* C4: in every reachable state at most one task is executing on behalf of any
\* agent id.
C4_OneLiveTaskPerAgent ==
    \A a \in AgentIds : Cardinality(LiveTasks(a)) <= 1

\* the event log holds a terminal event (task_execution or error) of the task
\* that start_agent call c created for agent a
TerminalEventLogged(a, c) ==
    \E i \in 1..Len(events) :
        /\ events[i].event_type \in {"task_execution", "error"}
        /\ events[i].agent_id = a
        /\ events[i].event_data = c

\* C5: under the sequential strategy, once start_agent has been called for
\* spec k+1 the task of spec k is settled and, unless that task was cancelled,
\* its terminal event is already in the event log (so it precedes the start
\* event of spec k+1).
C5_SequentialStartsAfterSettled ==
    \A k \in 1..(Len(seq.started) - 1) :
        LET c == seq.started[k]
            t == calls[c].task
        IN  /\ Settled(tasks[t])
            /\ tasks[t].pc = "cancelled" \/ TerminalEventLogged(calls[c].agent, c)

\* C9: a stop_agent call never fails, whether or not the id is active: the
\* step that ends it returns, publishes one Idle broadcast and appends one
\* stop event.
C9_StopAgentAlwaysReports ==
    [][\A c \in DOMAIN calls' :
          ( /\ calls'[c].kind = "stop"
            /\ calls'[c].pc \in {"returned", "raised"}
            /\ (c \in DOMAIN calls => calls[c].pc \notin {"returned", "raised"}) )
          => LET a == calls'[c].agent
             IN  /\ calls'[c].pc = "returned"
                 /\ bcasts'[<<a, "idle">>] = bcasts[<<a, "idle">>] + 1
                 /\ Len(events') = Len(events) + 1
                 /\ events'[Len(events')].event_type = "stop"
                 /\ events'[Len(events')].agent_id = a]_vars

\* the rows of the node table for one (node_type, entity_id) pair
NodesFor(nodes, nt, eid) == {n \in nodes : n.node_type = nt /\ n.entity_id = eid}

\* C12: whatever the coordinator, its concurrently running tasks and the
\* orchestration store in the graph, every step leaves at most one node per
\* (node_type, entity_id) pair; a pair that already has a node keeps exactly
\* that node, and every edge joins ids of nodes of the table.
C12_OneNodePerEntity ==
    [][/\ \A nt \in {"agent", "project"}, eid \in AgentIds \cup ProjectIds :
             /\ Cardinality(NodesFor(dbNodes', nt, eid)) <= 1
             /\ NodesFor(dbNodes, nt, eid) # {}
                   => NodesFor(dbNodes', nt, eid) = NodesFor(dbNodes, nt, eid)
       /\ \A e \in dbEdges' :
             /\ \E n \in dbNodes' : n.id = e.from_node_id
             /\ \E n \in dbNodes' : n.id = e.to_node_id]_vars

\* an agent id with a second event and a works_on edge, one node for it
C12_Witness ==
    \E a \in AgentIds :
        /\ Cardinality({i \in 1..Len(events) : events[i].agent_id = a}) >= 2
        /\ Cardinality(NodesFor(dbNodes, "agent", a)) = 1
        /\ \E e \in dbEdges : \E n \in NodesFor(dbNodes, "agent", a) :
              e.from_node_id = n.id /\ e.interaction_count >= 2


CollabTasks == {calls[orch.started[k]].task : k \in DOMAIN orch.started}

StartEventsOf(id, plan) ==
    {i \in 1..Len(events) : /\ events[i].event_type = "orchestration_start"
                            /\ events[i].agent_id = id
                            /\ events[i].event_data = plan}

\* C18: an orchestrate_agents call with a valid strategy, none of whose
\* start_agent calls failed, returns the orchestration id and has by then
\* appended exactly one orchestration_start event keyed by that id with the
\* plan as payload; under the sequential strategy every task it started is
\* settled by then.
C18_OrchestrateReturnsId ==
    /\ (/\ orch.pc \in {"returned", "raised"}
        /\ \A k \in DOMAIN orch.started : calls[orch.started[k]].pc # "raised") =>
          /\ orch.pc = "returned"
          /\ Cardinality(StartEventsOf(orch.id, orch.plan)) = 1
    /\ (/\ seq.pc \in {"returned", "raised"}
        /\ \A k \in DOMAIN seq.started : calls[seq.started[k]].pc # "raised") =>
          /\ seq.pc = "returned"
          /\ Cardinality(StartEventsOf(OrchestrationId, "plan")) = 1
          /\ \A k \in DOMAIN seq.started : Settled(tasks[calls[seq.started[k]].task])


\* C23: get_agent_status never fails and changes neither active_agents nor
\* agent_tasks; for an id that is not active it returns the default idle /
\* not_running status with no capabilities and no current task; for an active
\* id it returns the live status of the agent (running exactly while its task
\* has not ended), its capabilities and its current task.
C23_AgentStatusReported ==
    [][coOut' # coOut =>
          /\ ~coOut'.raised
          /\ UNCHANGED <<active_agents, agent_tasks, tasks, calls>>
          /\ IF active_agents[coOut'.agent_id] = NoEntry
             THEN /\ coOut'.status = "idle"
                  /\ coOut'.orchestra_status = "not_running"
                  /\ coOut'.capabilities = {}
                  /\ coOut'.current_task = NoCurrentTask
             ELSE /\ coOut'.status = "running" <=> LiveTasks(coOut'.agent_id) # {}
                  /\ coOut'.capabilities = Capabilities
                  /\ coOut'.current_task =
                        CurrentTask(CoNow, active_agents[coOut'.agent_id])]_vars


\* the start_agent call of spec k of the sequential plan raised
SeqStartFailed(k) ==
    /\ k <= Len(seq.started)
    /\ calls[seq.started[k]].pc = "raised"

\* the task body of spec k of the sequential plan raised: its task stored the
\* error event of its run
SeqTaskFailed(k) ==
    /\ k <= Len(seq.started)
    /\ \E i \in 1..Len(events) :
          /\ events[i].event_type = "error"
          /\ events[i].agent_id = seq.plan[k]
          /\ events[i].event_data = seq.started[k]

\* C27: once a sequential orchestration has ended, every spec listed after a
\* spec that failed (its start_agent call raised, or its task body raised)
\* has been started.
C27_SequentialContinuesAfterFailure ==
    seq.pc \in {"returned", "raised"} =>
        \A k \in 1..Len(seq.plan) :
            (SeqStartFailed(k) \/ SeqTaskFailed(k)) =>
                \A j \in (k + 1)..Len(seq.plan) : j <= Len(seq.started)

\* some task of a spec of the parallel plan has not ended
ParTaskRunning ==
    \E k \in DOMAIN orch.started : ~Settled(tasks[calls[orch.started[k]].task])

\* the start event of a later-listed agent is in the event log before the
\* terminal event (task_execution or error) of an earlier-listed one
StartBeforeTerminal ==
    \E j, k \in DOMAIN orch.plan, m, n \in 1..Len(events) :
        /\ j < k
        /\ orch.plan[j] # orch.plan[k]
        /\ m < n
        /\ events[m].event_type = "start"
        /\ events[m].agent_id = orch.plan[k]
        /\ events[n].event_type \in {"task_execution", "error"}
        /\ events[n].agent_id = orch.plan[j]

\* C28: under the parallel strategy the start events are not held back by the
\* terminal events of other agents, and orchestrate_agents returns while agent
\* tasks are still running: whenever the call has ended with the start event
\* of a later-listed agent recorded before the terminal event of an
\* earlier-listed one, or with a task of the plan still running, it has
\* returned.
C28_ParallelReturnsWhileTasksRun ==
    (/\ orch.strategy = "parallel"
     /\ orch.pc \in {"returned", "raised"}
     /\ orch.error # "start_agent"
     /\ (ParTaskRunning \/ StartBeforeTerminal)) =>
        orch.pc = "returned"

\* the positions in the event log of the start event of start_agent call c
StartEventAt(c) ==
    {i \in 1..Len(events) : /\ events[i].event_type = "start"
                             /\ events[i].agent_id = calls[c].agent
                             /\ events[i].event_data = c}

\* the positions in the event log of the terminal events of the run that
\* start_agent call c launched
TerminalEventAt(c) ==
    {i \in 1..Len(events) : /\ events[i].event_type \in {"task_execution", "error"}
                             /\ events[i].agent_id = calls[c].agent
                             /\ events[i].event_data = c}

\* C31: for every run a start_agent call launched, the start event of the call
\* is in the event log before the terminal event (task_execution or error) of
\* the run.
C31_StartEventBeforeTerminalEvent ==
    \A c \in DOMAIN calls :
        calls[c].kind = "start" =>
            \A n \in TerminalEventAt(c) : \E m \in StartEventAt(c) : m < n

\* the task registered for agent a has ended by itself
SettledByItself(a) ==
    /\ agent_tasks[a] # NoEntry
    /\ tasks[agent_tasks[a]].pc = "done"

\* C32: once the task registered for an agent has completed or failed, the
\* agent id eventually leaves active_agents and agent_tasks, so that
\* get_agent_status no longer reports it as running.
C32_SettledAgentLeavesMaps ==
    \A a \in AgentIds :
        SettledByItself(a) ~> (active_agents[a] = NoEntry /\ agent_tasks[a] = NoEntry)

\* C36: a start_agent call that fails has broadcast Error for its agent, and
\* when it raises it leaves nothing of its own behind: the agent it built is
\* not the one registered in active_agents, the task it created is not the
\* one registered in agent_tasks, and that task is not running.
C36_FailedStartLeavesNothing ==
    [][\A c \in DOMAIN calls :
          (/\ calls[c].kind = "start"
           /\ calls[c].pc # "raised"
           /\ calls'[c].pc = "raised") =>
              LET a == calls[c].agent
                  t == calls[c].task
              IN  /\ bcasts'[<<a, "error">>] = bcasts[<<a, "error">>] + 1
                  /\ active_agents'[a] # c
                  /\ t # NoEntry => (agent_tasks'[a] # t /\ Settled(tasks'[t]))]_vars

\* the terminal outcomes published for the run of task t: the Completed
\* broadcast and the task_execution event are published by one step of the
\* task, the Error broadcast and the error event by another, so the event log
\* tells which of the two happened
RunOutcomes(t) ==
    {ty \in {"task_execution", "error"} :
        \E i \in 1..Len(events) : /\ events[i].event_type = ty
                                  /\ events[i].agent_id = tasks[t].agent
                                  /\ events[i].event_data = tasks[t].run}

\* C37: a background task that ended without being cancelled has published
\* exactly one terminal outcome for its run: completed with a task_execution
\* event, or error with an error event, never both.
C37_OneTerminalOutcomePerRun ==
    \A t \in DOMAIN tasks :
        (tasks[t].pc = "done" /\ ~tasks[t].cancel) =>
            Cardinality(RunOutcomes(t)) = 1

\* C17: once shutdown has returned, active_agents and agent_tasks are empty
\* and no task created by the coordinator for an agent that was registered
\* when shutdown was called is still running; a shutdown that finds no
\* registered agent completes without error.
C17_ShutdownStopsEveryAgent ==
    shut.pc = "returned" =>
        /\ shut.found # {} =>
              /\ \A a \in shut.found :
                    /\ active_agents[a] = NoEntry
                    /\ agent_tasks[a] = NoEntry
                    /\ LiveTasks(a) = {}
        /\ shut.found = {} =>
              /\ ~shut.error
              /\ shut.orchestra_stopped
              /\ shut.graph_closed


(***************************************************************************)
(* Notifier: ConnectionManager                                             *)
(***************************************************************************)

\* the WebSocket objects of the clients
Sockets == {"ws1", "ws2", "ws3"}

NoSocket == "none"

WsInit ==
    /\ active_connections = <<>>
    /\ connection_data = {}
    /\ transport = [x \in Sockets |-> "new"]
    /\ received = [x \in Sockets |-> {}]
    /\ broadcasts = <<>>

\* the elements of a list
Elements(list) == {list[i] : i \in 1..Len(list)}

\* list.remove(x): the list without the first occurrence of x
ListRemove(list, x) ==
    LET at == CHOOSE i \in 1..Len(list) :
                  list[i] = x /\ \A j \in 1..(i - 1) : list[j] # x
    IN  [i \in 1..(Len(list) - 1) |-> IF i < at THEN list[i] ELSE list[i + 1]]

\* disconnect (lines 56-66) on the manager m
Disconnect(m, x) ==
    IF x \in Elements(m.conns)
    THEN [conns |-> ListRemove(m.conns, x), data |-> m.data \ {x}]
    ELSE m

\* broadcast, lines 90-92: for connection in disconnected: self.disconnect(connection)
RECURSIVE DisconnectEach(_, _)
DisconnectEach(m, list) ==
    IF list = <<>> THEN m
    ELSE DisconnectEach(Disconnect(m, Head(list)), Tail(list))

\* connect (lines 33-53): the socket is accepted and registered, then the
\* welcome message is sent to it alone (a failure of that send is swallowed
\* by send_personal_message)
Connect ==
    /\ \E x \in Sockets :
          /\ transport[x] = "new"
          /\ transport' = [transport EXCEPT ![x] = "open"]
          /\ active_connections' = Append(active_connections, x)
          /\ connection_data' = connection_data \cup {x}
    /\ UNCHANGED <<received, broadcasts, supVars, kgVars, kgCalls, coVars, svcVars, sessVars>>

\* the client of a socket goes away
TransportCloses ==
    /\ \E x \in Sockets :
          /\ transport[x] = "open"
          /\ transport' = [transport EXCEPT ![x] = "closed"]
    /\ UNCHANGED <<active_connections, connection_data, received, broadcasts,
                   supVars, kgVars, kgCalls, coVars, svcVars, sessVars>>

\* websocket_endpoint, lines 113-145: receive_text raises WebSocketDisconnect
\* and the handler calls manager.disconnect
EndpointDisconnect ==
    /\ \E x \in Sockets :
          /\ transport[x] = "closed"
          /\ x \in Elements(active_connections)
          /\ LET m == Disconnect([conns |-> active_connections,
                                  data |-> connection_data], x)
             IN  /\ active_connections' = m.conns
                 /\ connection_data' = m.data
    /\ UNCHANGED <<transport, received, broadcasts, supVars, kgVars, kgCalls, coVars, svcVars, sessVars>>

\* broadcast, lines 75-85: with no connection the call returns; otherwise the
\* loop takes the first element of the list and suspends in its send_text.
\* pos is the index of the list iterator: the number of elements taken; sent
\* lists the sockets whose send_text has returned, one entry per send
BroadcastBegin ==
    /\ Len(broadcasts) < MaxBroadcasts
    /\ broadcasts' = Append(broadcasts,
          IF active_connections = <<>>
          THEN [pc |-> "returned", pos |-> 0, cur |-> NoSocket,
                disconnected |-> <<>>, listeners |-> {}, sent |-> <<>>]
          ELSE [pc |-> "sending", pos |-> 1, cur |-> active_connections[1],
                disconnected |-> <<>>,
                listeners |-> Elements(active_connections), sent |-> <<>>])
    /\ UNCHANGED <<active_connections, connection_data, transport, received,
                   supVars, kgVars, kgCalls, coVars, svcVars, sessVars>>

\* broadcast, lines 83-92: send_text returns or raises (a closed socket
\* raises, and is kept in disconnected; the await has no timeout, so the send
\* to a stalled socket does not end); the iterator of the for loop then
\* takes the element at its index in the list as it is now, or, past the end,
\* the loop ends, the sockets kept in disconnected are removed and the call
\* returns
BroadcastSendEnds ==
    /\ \E b \in DOMAIN broadcasts :
          /\ broadcasts[b].pc = "sending"
          /\ transport[broadcasts[b].cur] # "stalled"
          /\ LET call == broadcasts[b]
                 ok == transport[call.cur] = "open"
                 failed == IF ok THEN call.disconnected
                           ELSE Append(call.disconnected, call.cur)
                 sent == IF ok THEN Append(call.sent, call.cur) ELSE call.sent
             IN  /\ received' = IF ok THEN [received EXCEPT ![call.cur] = @ \cup {b}]
                                ELSE received
                 /\ IF call.pos < Len(active_connections)
                    THEN /\ broadcasts' = [broadcasts EXCEPT ![b] =
                               [call EXCEPT !.pos = @ + 1,
                                            !.cur = active_connections[call.pos + 1],
                                            !.disconnected = failed,
                                            !.sent = sent]]
                         /\ UNCHANGED <<active_connections, connection_data>>
                    ELSE LET m == DisconnectEach([conns |-> active_connections,
                                                  data |-> connection_data], failed)
                         IN  /\ broadcasts' = [broadcasts EXCEPT ![b] =
                                    [call EXCEPT !.pc = "returned", !.cur = NoSocket,
                                                 !.disconnected = failed,
                                                 !.sent = sent]]
                             /\ active_connections' = m.conns
                             /\ connection_data' = m.data
    /\ UNCHANGED <<transport, supVars, kgVars, kgCalls, coVars, svcVars, sessVars>>

NotifierNext ==
    \/ Connect
    \/ TransportCloses
    \/ EndpointDisconnect
    \/ BroadcastBegin
    \/ BroadcastSendEnds


\* the client of a socket stops reading while its connection stays up
TransportStalls ==
    /\ \E x \in Sockets :
          /\ transport[x] = "open"
          /\ transport' = [transport EXCEPT ![x] = "stalled"]
    /\ UNCHANGED <<active_connections, connection_data, received, broadcasts,
                   supVars, kgVars, kgCalls, coVars, svcVars, sessVars>>

SlowNext ==
    \/ Connect
    \/ TransportCloses
    \/ TransportStalls
    \/ BroadcastBegin
    \/ BroadcastSendEnds

(***************************************************************************)
(* Claims about the notifier                                               *)
(***************************************************************************)

\* C20: a broadcast that has returned has removed every listener whose send
\* failed from the listener list and from the connection data, and every
\* other listener that was registered when the broadcast began and is still
\* registered has received the message.
C20_BroadcastReachesEveryListener ==
    \A b \in DOMAIN broadcasts :
        broadcasts[b].pc = "returned" =>
            \A x \in broadcasts[b].listeners :
                IF x \in Elements(broadcasts[b].disconnected)
                THEN /\ x \notin Elements(active_connections)
                     /\ x \notin connection_data
                ELSE x \in Elements(active_connections) => b \in received[x]

\* how many times broadcast b has sent its message to socket x
TimesSent(b, x) ==
    Cardinality({i \in 1..Len(broadcasts[b].sent) : broadcasts[b].sent[i] = x})

\* socket x was registered when broadcast b began and is registered now that
\* it has returned, and no send to it has failed: its transport is open
RegisteredThroughout(b, x) ==
    /\ x \in broadcasts[b].listeners
    /\ x \in Elements(active_connections)
    /\ x \notin Elements(broadcasts[b].disconnected)
    /\ transport[x] = "open"

\* C39: when a broadcast returns, every listener that was registered from its
\* beginning to its return and whose send does not fail has been sent the
\* message exactly once, whatever other listeners connected, disconnected or
\* were dropped by another broadcast in between.
C39_RegisteredListenerReceivesOnce ==
    [][\A b \in DOMAIN broadcasts :
          (broadcasts[b].pc = "sending" /\ broadcasts'[b].pc = "returned") =>
              \A x \in Sockets :
                  RegisteredThroughout(b, x)' => TimesSent(b, x)' = 1]_vars


\* C21: every broadcast that was issued eventually returns, also when a
\* listener is stalled and never completes its receive.
C21_BroadcastEventuallyReturns ==
    \A b \in 1..MaxBroadcasts :
        (b \in DOMAIN broadcasts) ~> (b \in DOMAIN broadcasts /\ broadcasts[b].pc = "returned")


(***************************************************************************)
(* Agent service: AgentService (backend/services/agent_service.py)         *)
(***************************************************************************)

\* the agent ids the service is called with, and what the database and the
\* registry hold for each: "ok" is an enabled row whose type has a registered
\* class, "disabled" a row with is_enabled false, "no_class" an enabled row
\* whose type has no registered class, "missing" no row
ServiceIds == {"s1", "s2", "s3", "s4"}

AgentRow == [a \in ServiceIds |->
                CASE a = "s1" -> "ok"
                  [] a = "s2" -> "disabled"
                  [] a = "s3" -> "no_class"
                  [] OTHER -> "missing"]

SvcInit ==
    /\ svc_active = [a \in ServiceIds |-> NoEntry]
    /\ svcAgents = <<>>
    /\ svcCalls = <<>>

\* the ids registered in active_agents
ActiveIds == {a \in ServiceIds : svc_active[a] # NoEntry}

\* BaseAgent.is_running: set at line 46, cleared in the finally clause
SvcIsRunning(agent) == agent.pc \in {"pub_start", "body", "pub_final"}

\* start_agent, lines 126-142: the checks made before the agent is built
StartRejection(a) ==
    CASE svc_active[a] # NoEntry -> "AlreadyRunning"
      [] AgentRow[a] = "missing" -> "NotFound"
      [] AgentRow[a] = "disabled" -> "Disabled"
      [] AgentRow[a] = "no_class" -> "NoClass"
      [] OTHER -> "none"

\* start_agent, lines 123-157: a rejected call raises ValueError; an accepted
\* one builds the agent, registers it and awaits agent.start, which sets
\* is_running and suspends in the publication of its Running update
SvcStartAgent ==
    /\ Len(svcCalls) < MaxServiceCalls
    /\ \E a \in ServiceIds :
          LET why == StartRejection(a)
              c == Len(svcCalls) + 1
              n == Len(svcAgents) + 1
          IN  IF why # "none"
              THEN /\ svcCalls' = Append(svcCalls,
                         [kind |-> "start", agent |-> a, pc |-> "raised",
                          object |-> NoEntry, reason |-> why,
                          before |-> ActiveIds])
                   /\ UNCHANGED <<svc_active, svcAgents>>
              ELSE /\ svcAgents' = Append(svcAgents,
                         [agent_id |-> a, pc |-> "pub_start",
                          should_stop |-> FALSE, result |-> "none", call |-> c])
                   /\ svc_active' = [svc_active EXCEPT ![a] = n]
                   /\ svcCalls' = Append(svcCalls,
                         [kind |-> "start", agent |-> a, pc |-> "in_start",
                          object |-> n, reason |-> "none",
                          before |-> ActiveIds])
    /\ UNCHANGED <<supVars, kgVars, kgCalls, coVars, wsVars, sessVars>>

\* BaseAgent.start, lines 49-55: the Running update is published and
\* _execute_task is entered
SvcStartPublished ==
    /\ \E n \in DOMAIN svcAgents :
          /\ svcAgents[n].pc = "pub_start"
          /\ svcAgents' = [svcAgents EXCEPT ![n].pc = "body"]
    /\ UNCHANGED <<svc_active, svcCalls, supVars, kgVars, kgCalls, coVars, wsVars, sessVars>>

\* start_agent, line 175: except Exception handles what agent.start raises,
\* but not asyncio.CancelledError, which is a BaseException
CaughtByStartAgent(outcome) == outcome = "raised"

\* start_agent, lines 175-179: a caught failure removes the id from
\* active_agents if it is there; an uncaught one leaves the dictionary alone
AfterFailedStart(active, a, outcome) ==
    IF CaughtByStartAgent(outcome)
    THEN [active EXCEPT ![a] = NoEntry]
    ELSE active

\* the task body reaches _check_should_stop with the flag set (lines 189-192):
\* CancelledError leaves start() through its finally clause and start_agent
\* without a handler
SvcBodyCancelled ==
    /\ \E n \in DOMAIN svcAgents :
          /\ svcAgents[n].pc = "body"
          /\ svcAgents[n].should_stop
          /\ svcAgents' = [svcAgents EXCEPT ![n].pc = "ended"]
          /\ svcCalls' = [svcCalls EXCEPT ![svcAgents[n].call] =
                             [@ EXCEPT !.pc = "cancelled", !.reason = "Cancelled"]]
          /\ svc_active' = AfterFailedStart(svc_active, svcAgents[n].agent_id,
                                            "cancelled")
    /\ UNCHANGED <<supVars, kgVars, kgCalls, coVars, wsVars, sessVars>>

\* _execute_task returns or raises an Exception; start() suspends in the
\* publication of its final update (lines 57-71)
SvcBodyEnds ==
    /\ \E n \in DOMAIN svcAgents, r \in {"ok", "exc"} :
          /\ svcAgents[n].pc = "body"
          /\ svcAgents' = [svcAgents EXCEPT ![n].pc = "pub_final",
                                            ![n].result = r]
    /\ UNCHANGED <<svc_active, svcCalls, supVars, kgVars, kgCalls, coVars, wsVars, sessVars>>

\* the final update is published and start() returns or re-raises through its
\* finally clause. start_agent, lines 159-179: after a return the task row is
\* added and committed, and the call returns the task id or, if the commit
\* fails, goes to its handler like a start() that raised
SvcStartEnds ==
    /\ \E n \in DOMAIN svcAgents, commit \in BOOLEAN :
          LET a == svcAgents[n].agent_id
              c == svcAgents[n].call
              ok == svcAgents[n].result = "ok" /\ commit
          IN  /\ svcAgents[n].pc = "pub_final"
              /\ svcAgents[n].result = "exc" => commit
              /\ svcAgents' = [svcAgents EXCEPT ![n].pc = "ended"]
              /\ svcCalls' = [svcCalls EXCEPT ![c] =
                    IF ok THEN [@ EXCEPT !.pc = "returned"]
                    ELSE [@ EXCEPT !.pc = "raised",
                                   !.reason = IF svcAgents[n].result = "ok"
                                              THEN "CommitFailed"
                                              ELSE "TaskFailed"]]
              /\ svc_active' = IF ok THEN svc_active
                               ELSE AfterFailedStart(svc_active, a, "raised")
    /\ UNCHANGED <<supVars, kgVars, kgCalls, coVars, wsVars, sessVars>>

\* stop_agent, lines 181-195, with BaseAgent.stop, lines 78-86: an id that is
\* not active returns False; an agent that is not running is removed at once;
\* for a running one stop() sets should_stop and suspends in the publication
\* of its Idle update
SvcStopAgent ==
    /\ Len(svcCalls) < MaxServiceCalls
    /\ \E a \in ServiceIds :
          LET n == svc_active[a]
              call == [kind |-> "stop", agent |-> a, pc |-> "returned_false",
                       object |-> n, reason |-> "none", before |-> ActiveIds]
          IN  IF n = NoEntry
              THEN /\ svcCalls' = Append(svcCalls, call)
                   /\ UNCHANGED <<svc_active, svcAgents>>
              ELSE IF ~SvcIsRunning(svcAgents[n])
                   THEN /\ svcCalls' = Append(svcCalls,
                              [call EXCEPT !.pc = "returned_true"])
                        /\ svc_active' = [svc_active EXCEPT ![a] = NoEntry]
                        /\ UNCHANGED svcAgents
                   ELSE /\ svcCalls' = Append(svcCalls,
                              [call EXCEPT !.pc = "pub_stop"])
                        /\ svcAgents' = [svcAgents EXCEPT ![n].should_stop = TRUE]
                        /\ UNCHANGED svc_active
    /\ UNCHANGED <<supVars, kgVars, kgCalls, coVars, wsVars, sessVars>>

\* stop_agent, lines 189-195, after stop() returned: del
\* self.active_agents[agent_id], which raises KeyError if the id is gone
SvcStopResume ==
    /\ \E c \in DOMAIN svcCalls :
          /\ svcCalls[c].kind = "stop"
          /\ svcCalls[c].pc = "pub_stop"
          /\ IF svc_active[svcCalls[c].agent] = NoEntry
             THEN /\ svcCalls' = [svcCalls EXCEPT ![c].pc = "raised",
                                                  ![c].reason = "KeyError"]
                  /\ UNCHANGED svc_active
             ELSE /\ svcCalls' = [svcCalls EXCEPT ![c].pc = "returned_true"]
                  /\ svc_active' = [svc_active EXCEPT ![svcCalls[c].agent] = NoEntry]
    /\ UNCHANGED <<svcAgents, supVars, kgVars, kgCalls, coVars, wsVars, sessVars>>

ServiceNext ==
    \/ SvcStartAgent
    \/ SvcStartPublished
    \/ SvcBodyCancelled
    \/ SvcBodyEnds
    \/ SvcStartEnds
    \/ SvcStopAgent
    \/ SvcStopResume

(***************************************************************************)
(* Claims about the agent service                                          *)
(***************************************************************************)

\* the start_agent call c fails in this step
StartFailsNow(c) ==
    /\ c \in DOMAIN svcCalls'
    /\ svcCalls'[c].kind = "start"
    /\ svcCalls'[c].pc \in {"raised", "cancelled"}
    /\ c \in DOMAIN svcCalls => svcCalls[c].pc = "in_start"

\* C29: when a start_agent call fails, for whatever reason, its agent id is
\* registered as active exactly if it was before the call: a rejection as
\* AlreadyRunning leaves active_agents untouched, and every other failure
\* leaves the id out of it.
C29_FailedStartLeavesNoAgent ==
    [][\A c \in 1..MaxServiceCalls :
          StartFailsNow(c) =>
              LET a == svcCalls'[c].agent
              IN  (svc_active'[a] # NoEntry) <=> (a \in svcCalls'[c].before)]_vars

\* start_agent call c has returned successfully: agent.start ran the task to
\* its end and the task row was committed
StartReturned(c) ==
    /\ svcCalls[c].kind = "start"
    /\ svcCalls[c].pc = "returned"

\* C38: an id is in active_agents only while its agent is running: after a
\* start_agent call for it has returned successfully the agent that call
\* registered is no longer in active_agents, and no later start_agent call for
\* the id is rejected as already running because of it.
C38_ActiveOnlyWhileRunning ==
    \A c \in DOMAIN svcCalls :
          StartReturned(c) =>
              /\ svc_active[svcCalls[c].agent] # svcCalls[c].object
              /\ \A d \in DOMAIN svcCalls :
                    (/\ d > c
                     /\ svcCalls[d].kind = "start"
                     /\ svcCalls[d].agent = svcCalls[c].agent
                     /\ svcCalls[d].reason = "AlreadyRunning") =>
                        \E e \in (c + 1)..(d - 1) :
                            /\ svcCalls[e].kind = "start"
                            /\ svcCalls[e].agent = svcCalls[c].agent
                            /\ svcCalls[e].object # NoEntry


(***************************************************************************)
(* WebSocket sessions: websocket_endpoint and handle_websocket_message     *)
(***************************************************************************)

\* message.get("type") and message.get("agent_id") of a key that is absent
NoType == "None"
NoId == "None"

\* the texts a client sends. json is what json.loads makes of the text:
\* "invalid" raises JSONDecodeError, "other" is a value that is not an object
\* (a list, a number, null), "object" a dictionary with the type and agent_id
\* given (NoType, NoId: no such key)
RawMessages ==
    {[json |-> "invalid", type |-> NoType, agent_id |-> NoId],
     [json |-> "other", type |-> NoType, agent_id |-> NoId]}
    \cup [json : {"object"}, type : {NoType, "ping", "bogus"}, agent_id : {NoId}]
    \cup [json : {"object"}, type : {"start_agent", "stop_agent"},
          agent_id : {NoId, "", "w1"}]

SessInit ==
    /\ session = [x \in Sockets |-> [pc |-> "receive", msg |-> NoEntry,
                                     script |-> <<>>]]
    /\ messages = <<>>
    /\ replies = <<>>
    /\ ws_active_agents = {}
    /\ ws_agent_tasks = {}

\* mutant: the commands without their agent_id test
NoAgentId_Never(raw) == FALSE

\* handle_websocket_message, lines 167 and 196: if not agent_id
NoAgentId(raw) == raw.agent_id \in {NoId, ""}

\* one send_personal_message of a handler, and what the handler does to the
\* agent dictionaries before it
Send(type, effect) == [send |-> type, effect |-> effect]

\* websocket_endpoint, lines 121-143, handle_websocket_message, lines 152-231,
\* start_orchestra_agent and stop_orchestra_agent: the personal messages sent
\* for one client message, in order, each with the change of the agent
\* dictionaries made since the last suspension. built tells whether
\* start_orchestra_agent gets its agent built and initialised
Script(raw, built) ==
    CASE raw.json = "invalid" -> <<Send("error", "none")>>
      [] raw.json = "other" -> <<Send("error", "none")>>
      [] raw.type = "ping" -> <<Send("pong", "none")>>
      [] raw.type = "start_agent" ->
            IF NoAgentId(raw) THEN <<Send("error", "none")>>
            ELSE IF built
                 THEN <<Send("agent_update", "none"),
                        Send("agent_started", "register")>>
                 ELSE <<Send("agent_update", "none"),
                        Send("agent_update", "none"),
                        Send("error", "none")>>
      [] raw.type = "stop_agent" ->
            IF NoAgentId(raw) THEN <<Send("error", "none")>>
            ELSE <<Send("agent_update", "unregister"),
                   Send("agent_stopped", "none")>>
      [] OTHER -> <<Send("error", "none")>>

\* active_agents[agent_id] = agent and agent_tasks[agent_id] = task (lines
\* 306-320), or the deletion of both keys (lines 350-373)
ApplyEffect(effect, id, set) ==
    CASE effect = "register" -> set \cup {id}
      [] effect = "unregister" -> set \ {id}
      [] OTHER -> set

\* the handler of socket x runs up to the suspension in its next send
RunToSend(x, m, script) ==
    /\ session' = [session EXCEPT ![x] = [pc |-> "sending", msg |-> m,
                                          script |-> script]]
    /\ ws_active_agents' = ApplyEffect(script[1].effect, messages'[m].raw.agent_id,
                                       ws_active_agents)
    /\ ws_agent_tasks' = ApplyEffect(script[1].effect, messages'[m].raw.agent_id,
                                     ws_agent_tasks)

\* websocket_endpoint, lines 117-123: receive_text returns a text of the
\* client and the handler runs up to its first send
SessionReceive ==
    /\ Len(messages) < MaxMessages
    /\ \E x \in Sockets, raw \in RawMessages, built \in BOOLEAN :
          /\ x \in Elements(active_connections)
          /\ transport[x] = "open"
          /\ session[x].pc = "receive"
          /\ built \/ (raw.type = "start_agent" /\ ~NoAgentId(raw))
          /\ messages' = Append(messages, [socket |-> x, raw |-> raw,
                                           done |-> FALSE])
          /\ RunToSend(x, Len(messages) + 1, Script(raw, built))
    /\ UNCHANGED <<replies, supVars, kgVars, kgCalls, coVars, wsVars, svcVars>>

\* send_personal_message, lines 68-73: send_text returns, or raises on a
\* closed socket and the exception is logged; the handler runs on to its next
\* send or back to receive_text
SessionSendEnds ==
    /\ \E x \in Sockets :
          LET m == session[x].msg
              script == session[x].script
          IN  /\ session[x].pc = "sending"
              /\ transport[x] # "stalled"
              /\ replies' = Append(replies,
                     [socket |-> x, msg |-> m, type |-> script[1].send,
                      delivered |-> transport[x] = "open"])
              /\ IF Len(script) > 1
                 THEN /\ UNCHANGED messages
                      /\ RunToSend(x, m, Tail(script))
                 ELSE /\ messages' = [messages EXCEPT ![m].done = TRUE]
                      /\ session' = [session EXCEPT ![x] =
                            [pc |-> "receive", msg |-> NoEntry, script |-> <<>>]]
                      /\ UNCHANGED <<ws_active_agents, ws_agent_tasks>>
    /\ UNCHANGED <<supVars, kgVars, kgCalls, coVars, wsVars, svcVars>>

\* websocket_endpoint, lines 117-119 and 145-146: receive_text raises
\* WebSocketDisconnect on a closed socket and the endpoint ends
SessionDisconnect ==
    /\ \E x \in Sockets :
          /\ transport[x] = "closed"
          /\ x \in Elements(active_connections)
          /\ session[x].pc = "receive"
          /\ LET m == Disconnect([conns |-> active_connections,
                                  data |-> connection_data], x)
             IN  /\ active_connections' = m.conns
                 /\ connection_data' = m.data
          /\ session' = [session EXCEPT ![x].pc = "ended"]
    /\ UNCHANGED <<messages, replies, ws_active_agents, ws_agent_tasks, transport,
                   received, broadcasts, supVars, kgVars, kgCalls, coVars, svcVars>>

SessionNext ==
    \/ Connect
    \/ TransportCloses
    \/ SessionReceive
    \/ SessionSendEnds
    \/ SessionDisconnect

(***************************************************************************)
(* Claims about the WebSocket sessions                                     *)
(***************************************************************************)

\* a text that is not valid JSON, a message of unknown type, or a start_agent
\* or stop_agent command without agent_id
Malformed(raw) ==
    \/ raw.json = "invalid"
    \/ /\ raw.json = "object"
       /\ \/ raw.type \notin {"ping", "start_agent", "stop_agent"}
          \/ raw.type \in {"start_agent", "stop_agent"} /\ raw.agent_id \in {NoId, ""}

\* the types of the personal messages sent for message m, in order
RepliesTo(m) ==
    LET at == {i \in 1..Len(replies) : replies[i].msg = m}
    IN  [i \in at |-> replies[i].type]

\* C30: a malformed message is answered with exactly one reply, an error, and
\* its handler changes neither agent dictionary; when it has been answered the
\* socket is still registered and the endpoint is back in receive_text; a ping
\* is answered with exactly one pong, also after a malformed message.
C30_MalformedMessageAnswered ==
    /\ [](\A m \in DOMAIN messages :
            messages[m].done =>
                /\ Malformed(messages[m].raw) =>
                      /\ DOMAIN RepliesTo(m) # {}
                      /\ Cardinality(DOMAIN RepliesTo(m)) = 1
                      /\ \A i \in DOMAIN RepliesTo(m) : RepliesTo(m)[i] = "error"
                /\ (messages[m].raw.json = "object" /\ messages[m].raw.type = "ping") =>
                      /\ Cardinality(DOMAIN RepliesTo(m)) = 1
                      /\ \A i \in DOMAIN RepliesTo(m) : RepliesTo(m)[i] = "pong")
    /\ [][\A x \in Sockets :
            (/\ session'[x] # session[x]
             /\ \/ session[x].pc = "sending" /\ Malformed(messages[session[x].msg].raw)
                \/ session'[x].pc = "sending"
                   /\ Malformed(messages'[session'[x].msg].raw)) =>
                /\ UNCHANGED <<ws_active_agents, ws_agent_tasks>>
                /\ x \in Elements(active_connections')
                /\ x \in connection_data'
                /\ session'[x].pc \in {"sending", "receive"}]_vars

C30_Witness ==
    /\ Len(messages) = 2
    /\ messages[1].raw.type = "start_agent" /\ messages[1].raw.agent_id = NoId
    /\ messages[2].raw.type = "ping"
    /\ \A m \in 1..2 : messages[m].done /\ messages[m].socket = messages[1].socket
    /\ ws_active_agents = {}
    /\ replies = <<[socket |-> messages[1].socket, msg |-> 1, type |-> "error",
                    delivered |-> TRUE],
                   [socket |-> messages[1].socket, msg |-> 2, type |-> "pong",
                    delivered |-> TRUE]>>
    /\ messages[1].socket \in Elements(active_connections)
    /\ session[messages[1].socket].pc = "receive"


Init == SupInit /\ KGInit /\ CoInit /\ WsInit /\ SvcInit /\ SessInit

SpecSupervisor == Init /\ [][SupNext /\ UNCHANGED <<kgVars, kgCalls, coVars, wsVars, svcVars, sessVars>>]_vars

SpecGraph == Init /\ [][KGNext /\ UNCHANGED <<coVars, wsVars, svcVars, sessVars>>]_vars

SpecCoordinator == Init /\ [][CoNext]_vars

SpecRepeat == Init /\ [][RepeatNext]_vars

SpecQuery == Init /\ [][QueryNext]_vars

SpecPatterns == Init /\ [][PatternNext]_vars

SpecRestart == Init /\ [][RestartNext]_vars

SpecFaulty == Init /\ [][FaultyNext]_vars

SpecConsolidate == Init /\ [][ConsolidateNext]_vars

SpecShutdown == Init /\ [][ShutdownNext]_vars

SpecStatus == Init /\ [][StatusNext]_vars

SpecSettle == Init /\ [][SettleNext]_vars /\ SettleFairness

SpecStartFailure == Init /\ [][StartFailureNext]_vars

SpecSequential == Init /\ [][SequentialNext]_vars

SpecParallel == Init /\ [][ParNext]_vars

SpecCollaborative == Init /\ [][CollaborativeNext]_vars

SpecService == Init /\ [][ServiceNext]_vars

SpecSession == Init /\ [][SessionNext]_vars

SpecNotifier == Init /\ [][NotifierNext]_vars

\* a send to a socket that is not stalled ends: the event loop resumes the
\* broadcast
SpecSlow == Init /\ [][SlowNext]_vars /\ WF_vars(BroadcastSendEnds)

====
